---------------------------- MODULE Spec2Model ----------------------------
(***************************************************************************)
(* A model of the productivity toolkit's agents: the Capture Processor,    *)
(* the Research Agent, the Content Writer's draft store and the Weekly     *)
(* Review Generator, together with the markdown files they rewrite.        *)
(*                                                                         *)
(* A JavaScript string is the sequence of its UTF-16 units.  A unit below   *)
(* 0080 is written as the one-character string, any other unit as {XXXX}   *)
(* with its four hexadecimal digits: the check mark U+2705 is {2705}, and  *)
(* an emoji beyond U+FFFF takes two elements, as its length in JavaScript  *)
(* is 2 (the light bulb U+1F4A1 is {D83D}, {DCA1}).  Offsets are 0-based   *)
(* as in JavaScript; SubSeq and sequence application are 1-based.          *)
(***************************************************************************)
EXTENDS Integers, Sequences, FiniteSets, TLC

VARIABLES
    fs,        \* the tracker files: name -> [exists, text]
    pc,        \* where the running invocation stands
    items,     \* process(): the items found by getPendingItems
    results,   \* process(): one entry per item attempted so far
    ret,       \* the value the invocation returned
    fs0,       \* history: the files as the invocation found them
    own,       \* history: own[i] is the line that now holds item i
    calls,     \* history: the section-editor calls made, with what each read and wrote
    run,       \* research(), generate(): the local variables of the invocation
    arg,       \* the input of the operation under study
    res,       \* the output of the operation under study
    io         \* the file call each invocation has in flight

vars == <<fs, pc, items, results, ret, fs0, own, calls, run, arg, res, io>>

-----------------------------------------------------------------------------
(* Bounds of the model *)

\* Most lines a capture file starts with.
MaxLines == 3

\* Most whitespace characters on either side of a classification reply.
MaxPad == 1

\* Most lines a file handed to the section editor starts with.
MaxEditLines == 2

\* Most editor calls in one run.
MaxCalls == 2

\* Most results the search provider returns for one query.
MaxResults == 3

-----------------------------------------------------------------------------
(* String primitives of JavaScript *)

NL == <<"\n">>

Min(S) == CHOOSE x \in S : \A y \in S : x <= y

\* s.startsWith(pat, i)
startsWith(s, pat, i) ==
    /\ i + Len(pat) <= Len(s)
    /\ \A k \in 1..Len(pat) : s[i + k] = pat[k]

\* s.indexOf(pat, from): the first offset >= from where pat occurs, or -1
indexOf(s, pat, from) ==
    LET at == {i \in from..(Len(s) - Len(pat)) : startsWith(s, pat, i)}
    IN  IF at = {} THEN -1 ELSE Min(at)

\* s.includes(pat)
includes(s, pat) == indexOf(s, pat, 0) # -1

\* s.slice(a, b) and s.slice(a), for 0 <= a
slice(s, a, b) == SubSeq(s, a + 1, IF b > Len(s) THEN Len(s) ELSE b)
sliceFrom(s, a) == SubSeq(s, a + 1, Len(s))

\* s.split('\n')
RECURSIVE split(_)
split(s) ==
    LET i == indexOf(s, NL, 0)
    IN  IF i = -1 THEN <<s>> ELSE <<slice(s, 0, i)>> \o split(sliceFrom(s, i + 1))

\* lines.join('\n')
RECURSIVE join(_)
join(lines) ==
    IF Len(lines) = 0 THEN <<>>
    ELSE IF Len(lines) = 1 THEN lines[1]
    ELSE lines[1] \o NL \o join(Tail(lines))

\* s.replace(pat, rep) with a string pattern: the first occurrence only
replace(s, pat, rep) ==
    LET i == indexOf(s, pat, 0)
    IN  IF i = -1 THEN s ELSE slice(s, 0, i) \o rep \o sliceFrom(s, i + Len(pat))

\* array.slice(0, n)
first(seq, n) == SubSeq(seq, 1, IF n > Len(seq) THEN Len(seq) ELSE n)

\* String(n), for n >= 0
Digit(d) == CASE d = 0 -> "0" [] d = 1 -> "1" [] d = 2 -> "2" [] d = 3 -> "3" [] d = 4 -> "4"
              [] d = 5 -> "5" [] d = 6 -> "6" [] d = 7 -> "7" [] d = 8 -> "8" [] d = 9 -> "9"

RECURSIVE toString(_)
toString(n) == IF n < 10 THEN <<Digit(n)>> ELSE toString(n \div 10) \o <<Digit(n % 10)>>

\* The characters String.prototype.trim strips (those the model's inputs use).
WhiteSpace == {" ", "\t", "\n", "\r"}

\* s.trim()
RECURSIVE trimStart(_)
trimStart(s) ==
    IF s # <<>> /\ Head(s) \in WhiteSpace THEN trimStart(Tail(s)) ELSE s

RECURSIVE trimEnd(_)
trimEnd(s) ==
    IF s # <<>> /\ s[Len(s)] \in WhiteSpace THEN trimEnd(SubSeq(s, 1, Len(s) - 1)) ELSE s

trim(s) == trimEnd(trimStart(s))

\* s.toLowerCase(): the letters A to Z and their lower-case forms; every other character
\* of the model's texts is its own lower-case form
UpperLetters ==
    <<"A", "B", "C", "D", "E", "F", "G", "H", "I", "J", "K", "L", "M",
      "N", "O", "P", "Q", "R", "S", "T", "U", "V", "W", "X", "Y", "Z">>
LowerLetters ==
    <<"a", "b", "c", "d", "e", "f", "g", "h", "i", "j", "k", "l", "m",
      "n", "o", "p", "q", "r", "s", "t", "u", "v", "w", "x", "y", "z">>
LowerOf ==
    [c \in {UpperLetters[k] : k \in DOMAIN UpperLetters} |->
        LowerLetters[CHOOSE k \in DOMAIN UpperLetters : UpperLetters[k] = c]]

toLowerCase(s) == [i \in 1..Len(s) |-> IF s[i] \in DOMAIN LowerOf THEN LowerOf[s[i]] ELSE s[i]]

\* What "." of a regular expression does not match.
LineTerminators == {"\n", "\r"}

-----------------------------------------------------------------------------
(* The files *)

CAPTURE == "CAPTURE.md"
PROJECTS == "PROJECTS.md"
RESEARCH == "RESEARCH.md"
CONTENT == "CONTENT.md"
CLIENTS == "CLIENTS.md"
WEEKLY == "WEEKLY-REVIEW.md"

FileNames == {CAPTURE, PROJECTS, RESEARCH, CONTENT, CLIENTS, WEEKLY}

\* path.basename(filePath, '.md')
basename(name) ==
    CASE name = CAPTURE -> <<"C", "A", "P", "T", "U", "R", "E">>
      [] name = PROJECTS -> <<"P", "R", "O", "J", "E", "C", "T", "S">>
      [] name = RESEARCH -> <<"R", "E", "S", "E", "A", "R", "C", "H">>
      [] name = CONTENT -> <<"C", "O", "N", "T", "E", "N", "T">>
      [] name = CLIENTS -> <<"C", "L", "I", "E", "N", "T", "S">>
      [] name = WEEKLY -> <<"W", "E", "E", "K", "L", "Y", "-", "R", "E", "V", "I", "E", "W">>

\* A file that does not exist: fs.readFile raises.
NoFile == [exists |-> FALSE, text |-> <<>>]

\* A file holding text.
File(text) == [exists |-> TRUE, text |-> text]

NoFiles == [f \in FileNames |-> NoFile]

\* What a handler does with a file: op names the function, file the path; section and
\* content are the arguments of the edit.  NoOp: no file is touched.
NoOp == [op |-> "none", file |-> CAPTURE, section |-> <<>>, content |-> <<>>]

-----------------------------------------------------------------------------
(* Capture Processor *)

\* new Date().toISOString().split('T')[0]: the day of the run
date == <<"2", "0", "2", "6", "-", "1", "0", "-", "3", "0">>

Unchecked == <<"-", " ", "[", " ", "]">>
Checked == <<"-", " ", "[", "x", "]">>

\* line.match(/^- \[ \] (.+)$/)
matchUnchecked(line) ==
    /\ startsWith(line, Unchecked \o <<" ">>, 0)
    /\ Len(line) > 6
    /\ \A k \in 7..Len(line) : line[k] \notin LineTerminators

RECURSIVE pendingFrom(_, _)
pendingFrom(lines, i) ==
    IF i > Len(lines) THEN <<>>
    ELSE (IF matchUnchecked(lines[i])
          THEN <<[text |-> sliceFrom(lines[i], 6), line |-> i - 1, raw |-> lines[i]]>>
          ELSE <<>>) \o pendingFrom(lines, i + 1)

\* getPendingItems(): the unchecked checklist lines, with their 0-based line index
getPendingItems(file) ==
    IF ~file.exists THEN <<>> ELSE pendingFrom(split(file.text), 1)

validCategories == {<<"t", "a", "s", "k">>, <<"p", "r", "o", "j", "e", "c", "t">>, <<"r", "e",
    "s", "e", "a", "r", "c", "h">>, <<"c", "o", "n", "t", "e", "n", "t">>, <<"c", "l", "i", "e",
    "n", "t">>,
                    <<"r", "e", "f", "e", "r", "e", "n", "c", "e">>, <<"i", "d", "e", "a">>}

categorizeUntrimmed(response) ==
    LET category == toLowerCase(response)
    IN  IF category \in validCategories THEN category ELSE <<"r", "e", "f", "e", "r", "e", "n",
        "c", "e">>

\* categorize(text), given the model's reply: trimmed, lower-cased, checked
categorize(response) ==
    LET category == toLowerCase(trim(response))
    IN  IF category \in validCategories THEN category ELSE <<"r", "e", "f", "e", "r", "e", "n",
        "c", "e">>

\* route(): the routes table
routes(category, text) ==
    CASE category = <<"t", "a", "s", "k">> ->
           [file |-> CAPTURE, action |-> "keep", section |-> <<>>,
            line |-> Unchecked \o <<" ">> \o text]
      [] category = <<"p", "r", "o", "j", "e", "c", "t">> ->
           [file |-> PROJECTS, action |-> "add", section |-> <<"#", "#", " ", "I", "d", "e", "a",
               "s">>,
            line |-> <<"-", " ", "{D83D}", "{DD35}", " ", "*", "*">> \o text \o <<"*", "*", " ",
                "-", " ", "A", "d", "d", "e", "d", " ">> \o date]
      [] category = <<"r", "e", "s", "e", "a", "r", "c", "h">> ->
           [file |-> RESEARCH, action |-> "add", section |-> <<"#", "#", " ", "T", "o", " ", "R",
               "e", "s", "e", "a", "r", "c", "h">>,
            line |-> Unchecked \o <<" ">> \o text \o <<" ", "(", "a", "d", "d", "e", "d",
                " ">> \o date \o <<")">>]
      [] category = <<"c", "o", "n", "t", "e", "n", "t">> ->
           [file |-> CONTENT, action |-> "add", section |-> <<"#", "#", " ", "I", "d", "e", "a",
               "s">>,
            line |-> Unchecked \o <<" ">> \o text \o <<" ", "(", "a", "d", "d", "e", "d",
                " ">> \o date \o <<")">>]
      [] category = <<"c", "l", "i", "e", "n", "t">> ->
           [file |-> CLIENTS, action |-> "add", section |-> <<"#", "#", " ", "N", "o", "t", "e",
               "s">>,
            line |-> <<"-", " ">> \o date \o <<":", " ">> \o text]
      [] category = <<"r", "e", "f", "e", "r", "e", "n", "c", "e">> ->
           [file |-> CAPTURE, action |-> "add", section |-> <<"#", "#", " ", "R", "e", "f", "e",
               "r", "e", "n", "c", "e">>,
            line |-> <<"-", " ">> \o text]
      [] category = <<"i", "d", "e", "a">> ->
           [file |-> CAPTURE, action |-> "add", section |-> <<"#", "#", " ", "I", "d", "e", "a",
               "s">>,
            line |-> <<"-", " ", "{D83D}", "{DCA1}", " ">> \o text]

\* addToFile: what is read, the boilerplate header when the file is missing
readOrHeader(file, name) ==
    IF file.exists THEN file.text ELSE <<"#", " ">> \o basename(name) \o NL \o NL

\* addToFile: the offset the content is spliced in at, or -1 when the section is absent
insertionPoint(fileContent, section) ==
    LET sectionIndex == indexOf(fileContent, section, 0)
    IN  IF sectionIndex # -1 THEN indexOf(fileContent, NL, sectionIndex) + 1 ELSE -1

addToFileAlwaysAppends(file, name, section, content) ==
    readOrHeader(file, name) \o NL \o section \o NL \o NL \o content \o NL

\* addToFile(filePath, section, content): the text written back
addToFile(file, name, section, content) ==
    LET fileContent == readOrHeader(file, name)
        nextLineIndex == insertionPoint(fileContent, section)
    IN  IF nextLineIndex # -1
        THEN slice(fileContent, 0, nextLineIndex) \o content \o NL
                 \o sliceFrom(fileContent, nextLineIndex)
        ELSE fileContent \o NL \o section \o NL \o NL \o content \o NL

routeIgnoresKeep(item, category) ==
    LET r == routes(category, item.text)
    IN  [op |-> "addToFile", file |-> r.file, section |-> r.section, content |-> r.line]

\* route(item, category): the addToFile call it makes, or none for an item that is kept
\* where it is
route(item, category) ==
    LET r == routes(category, item.text)
    IN  IF r.action = "keep" THEN NoOp
        ELSE [op |-> "addToFile", file |-> r.file, section |-> r.section, content |-> r.line]

\* markProcessed: the loop over the results, on the lines of the capture file
RECURSIVE markLines(_, _)
markLines(lines, rs) ==
    IF rs = <<>> THEN lines
    ELSE LET result == Head(rs)
             lineIndex == result.item.line
             marked ==
                 IF /\ result.category # <<"t", "a", "s", "k">>
                    /\ lineIndex + 1 \in DOMAIN lines
                    /\ lines[lineIndex + 1] # <<>>
                 THEN [lines EXCEPT ![lineIndex + 1] = replace(@, Unchecked, Checked)]
                 ELSE lines
         IN  markLines(marked, Tail(rs))

noErrorKeepsAll(rs) == rs

\* results.filter(r => !r.error)
noError(rs) == SelectSeq(rs, LAMBDA r : r.error = "")

\* markProcessed(results): the text written back, from the text read
markedText(content, rs) == join(markLines(split(content), rs))

\* capture(text): the boilerplate of a missing capture file
captureHeader ==
    <<"#", " ", "C", "a", "p", "t", "u", "r", "e", " ", "I", "n", "b", "o", "x", "\n", "\n", "Q",
        "u", "i", "c", "k", " ", "c", "a", "p", "t", "u", "r", "e", " ", "f", "o", "r", " ", "i",
        "d", "e", "a", "s", ",", " ", "t", "a", "s", "k", "s", ",", " ", "a", "n", "d", " ", "n",
        "o", "t", "e", "s", ".", " ", "P", "r", "o", "c", "e", "s", "s", " ", "r", "e", "g", "u",
        "l", "a", "r", "l", "y", ".", "\n", "\n", "#", "#", " ", "I", "n", "b", "o", "x", "\n",
        "\n">>

Inbox == <<"#", "#", " ", "I", "n", "b", "o", "x">>

\* capture(text): what is read
captureRead(file) == IF file.exists THEN file.text ELSE captureHeader

\* capture(text): the text written back
capture(file, text) ==
    LET content == captureRead(file)
        inboxIndex == indexOf(content, Inbox, 0)
        nextLineIndex == indexOf(content, NL, inboxIndex) + 1
    IN  IF inboxIndex # -1
        THEN slice(content, 0, nextLineIndex) \o (NL \o Unchecked \o <<" ">> \o text)
                 \o sliceFrom(content, nextLineIndex)
        ELSE content \o NL \o Inbox \o NL \o NL \o Unchecked \o <<" ">> \o text \o NL

-----------------------------------------------------------------------------
(* Content Writer: the draft store *)

\* saveToContent: the boilerplate of a missing content file
contentHeader ==
    <<"#", " ", "C", "o", "n", "t", "e", "n", "t", " ", "D", "r", "a", "f", "t", "s", "\n", "\n",
        "D", "r", "a", "f", "t", "s", " ", "a", "n", "d", " ", "c", "o", "n", "t", "e", "n", "t",
        " ", "p", "i", "e", "c", "e", "s", " ", "r", "e", "a", "d", "y", " ", "f", "o", "r", " ",
        "r", "e", "v", "i", "e", "w", " ", "o", "r", " ", "p", "u", "b", "l", "i", "s", "h", "i",
        "n", "g", ".", "\n", "\n", "#", "#", " ", "D", "r", "a", "f", "t", "s", "\n", "\n">>

Drafts == <<"#", "#", " ", "D", "r", "a", "f", "t", "s">>

\* saveToContent: what is read
contentRead(file) == IF file.exists THEN file.text ELSE contentHeader

\* saveToContent(topic, output, type): the text written back
saveToContent(file, output) ==
    LET content == contentRead(file)
        draftsIndex == indexOf(content, Drafts, 0)
        insertPoint == indexOf(content, NL, draftsIndex) + 1
    IN  IF draftsIndex # -1
        THEN slice(content, 0, insertPoint) \o NL \o output \o sliceFrom(content, insertPoint)
        ELSE content \o NL \o Drafts \o NL \o NL \o output

-----------------------------------------------------------------------------
(* Research Agent and Weekly Review Generator: the stores *)

\* saveToResearch: the boilerplate of a missing research file
researchHeader ==
    <<"#", " ", "R", "e", "s", "e", "a", "r", "c", "h", " ", "N", "o", "t", "e", "s", "\n", "\n",
        "C", "o", "l", "l", "e", "c", "t", "i", "o", "n", " ", "o", "f", " ", "r", "e", "s", "e",
        "a", "r", "c", "h", " ", "f", "i", "n", "d", "i", "n", "g", "s", " ", "a", "n", "d", " ",
        "i", "n", "s", "i", "g", "h", "t", "s", ".", "\n", "\n", "-", "-", "-", "\n", "\n">>

Divider == <<"-", "-", "-">>

\* saveToResearch(topic, report): the text written back
saveToResearch(file, report) ==
    LET content == IF file.exists THEN file.text ELSE researchHeader
        headerEnd == indexOf(content, Divider, 0)
    IN  IF headerEnd # -1
        THEN slice(content, 0, headerEnd + 4) \o NL \o report \o sliceFrom(content, headerEnd + 4)
        ELSE content \o NL \o report

\* saveReview: the boilerplate of a missing archive
reviewHeader == <<"#", " ", "W", "e", "e", "k", "l", "y", " ", "R", "e", "v", "i", "e", "w", "s",
    "\n", "\n", "A", "r", "c", "h", "i", "v", "e", " ", "o", "f", " ", "w", "e", "e", "k", "l",
    "y", " ", "r", "e", "v", "i", "e", "w", "s", " ", "a", "n", "d", " ", "r", "e", "f", "l", "e",
    "c", "t", "i", "o", "n", "s", ".", "\n", "\n", "-", "-", "-", "\n", "\n">>

\* saveReview(review, weekStart): the text written back
saveReview(file, review) ==
    LET content == IF file.exists THEN file.text ELSE reviewHeader
        dividerIndex == indexOf(content, Divider, 0)
    IN  IF dividerIndex # -1
        THEN slice(content, 0, dividerIndex + 4) \o NL \o NL \o review \o <<"\n", "-", "-", "-",
            "\n">>
                 \o sliceFrom(content, dividerIndex + 4)
        ELSE content \o NL \o review

-----------------------------------------------------------------------------
(* The bytes of a file *)

\* A file is a sequence of bytes and a JavaScript string, a sequence of UTF-16 units, is
\* written to it in UTF-8.  A byte below 80 is the character it spells; a byte of 80 or
\* above is written as its two hexadecimal digits.  The text of a file is its bytes with
\* every well-formed UTF-8 sequence decoded; a byte that is part of none stands in the
\* text as the byte.
Hex == <<"0", "1", "2", "3", "4", "5", "6", "7", "8", "9", "A", "B", "C", "D", "E", "F">>
HexDigits == {Hex[k] : k \in DOMAIN Hex}
hexValues == [d \in HexDigits |-> CHOOSE k \in 0..15 : Hex[k + 1] = d]
hexValue(d) == hexValues[d]

\* The byte n and the UTF-16 unit n, for n of 128 or above, and what they stand for.
byte(n) == Hex[(n \div 16) + 1] \o Hex[(n % 16) + 1]
unit(n) ==
    "{" \o Hex[(n \div 4096) + 1] \o Hex[((n \div 256) % 16) + 1]
        \o Hex[((n \div 16) % 16) + 1] \o Hex[(n % 16) + 1] \o "}"
isByte(x) == Len(x) = 2
isUnit(x) == Len(x) = 6
byteValue(b) == 16 * hexValue(SubSeq(b, 1, 1)) + hexValue(SubSeq(b, 2, 2))
unitValue(u) ==
    4096 * hexValue(SubSeq(u, 2, 2)) + 256 * hexValue(SubSeq(u, 3, 3))
        + 16 * hexValue(SubSeq(u, 4, 4)) + hexValue(SubSeq(u, 5, 5))

\* The UTF-8 bytes of a code point of 128 or above
utf8(cp) ==
    IF cp < 2048 THEN <<byte(192 + (cp \div 64)), byte(128 + (cp % 64))>>
    ELSE IF cp < 65536
         THEN <<byte(224 + (cp \div 4096)), byte(128 + ((cp \div 64) % 64)),
                byte(128 + (cp % 64))>>
         ELSE <<byte(240 + (cp \div 262144)), byte(128 + ((cp \div 4096) % 64)),
                byte(128 + ((cp \div 64) % 64)), byte(128 + (cp % 64))>>

\* The two halves of a character beyond U+FFFF
isHigh(x) == isUnit(x) /\ unitValue(x) \in 55296..56319
isLow(x) == isUnit(x) /\ unitValue(x) \in 56320..57343

\* Buffer.from(s, 'utf-8'): the bytes of a text; a high surrogate and the low one after
\* it make one character of four bytes, a surrogate on its own is written as U+FFFD
RECURSIVE bytesOf(_)
bytesOf(s) ==
    LET wide == {i \in DOMAIN s : Len(s[i]) = 6}
    IN  IF wide = {} THEN s
        ELSE LET i == Min(wide)
                 v == unitValue(s[i])
                 paired == v \in 55296..56319 /\ i < Len(s) /\ isLow(s[i + 1])
                 cp == IF paired
                       THEN 65536 + (v - 55296) * 1024 + (unitValue(s[i + 1]) - 56320)
                       ELSE IF v \in 55296..57343 THEN 65533 ELSE v
             IN  SubSeq(s, 1, i - 1) \o utf8(cp)
                     \o bytesOf(sliceFrom(s, IF paired THEN i + 1 ELSE i))

\* Buffer.byteLength(s)
byteLength(s) == Len(bytesOf(s))

\* The number of bytes the first byte of a character announces; 0 for a byte that
\* starts no character.
announced(b) ==
    LET v == byteValue(b)
    IN  IF v \in 194..223 THEN 2 ELSE IF v \in 224..239 THEN 3 ELSE IF v \in 240..244 THEN 4
        ELSE 0

\* The k-th unit after a first byte continues its character: a byte of 80..BF, and
\* within the bounds the first byte sets for the one right after it.
continues(lead, k, b) ==
    /\ isByte(b)
    /\ byteValue(b) \in 128..191
    /\ k = 1 =>
           CASE lead = "E0" -> byteValue(b) >= 160
             [] lead = "ED" -> byteValue(b) <= 159
             [] lead = "F0" -> byteValue(b) >= 144
             [] lead = "F4" -> byteValue(b) <= 143
             [] OTHER -> TRUE

\* How many of the units after a lead byte continue its character.
RECURSIVE continuation(_, _, _)
continuation(lead, us, k) ==
    IF k < announced(lead) /\ k <= Len(us) /\ continues(lead, k, us[k])
    THEN continuation(lead, us, k + 1) ELSE k - 1

\* The code point a well-formed sequence of bytes spells, and its UTF-16 units.
codePoint(bs) ==
    LET b == [k \in DOMAIN bs |-> byteValue(bs[k])]
    IN  CASE Len(bs) = 2 -> (b[1] - 192) * 64 + (b[2] - 128)
          [] Len(bs) = 3 -> (b[1] - 224) * 4096 + (b[2] - 128) * 64 + (b[3] - 128)
          [] Len(bs) = 4 ->
                 (b[1] - 240) * 262144 + (b[2] - 128) * 4096 + (b[3] - 128) * 64 + (b[4] - 128)
unitsOf(cp) ==
    IF cp < 65536 THEN <<unit(cp)>>
    ELSE <<unit(55296 + ((cp - 65536) \div 1024)), unit(56320 + ((cp - 65536) % 1024))>>

\* The bytes of a file as the characters they spell, a byte of no character kept.
RECURSIVE charsOf(_)
charsOf(bs) ==
    LET leads == {i \in DOMAIN bs : Len(bs[i]) = 2}
    IN  IF leads = {} THEN bs
        ELSE LET i == Min(leads)
                 n == announced(bs[i])
             IN  IF continuation(bs[i], sliceFrom(bs, i), 1) = n - 1
                 THEN SubSeq(bs, 1, i - 1) \o unitsOf(codePoint(SubSeq(bs, i, i + n - 1)))
                          \o charsOf(sliceFrom(bs, i - 1 + n))
                 ELSE SubSeq(bs, 1, i) \o charsOf(sliceFrom(bs, i))

\* The decoder's replacement of what is no character by U+FFFD: one for a byte that
\* starts or continues nothing, one for a character cut short.
RECURSIVE replaced(_)
replaced(us) ==
    LET stray == {i \in DOMAIN us : Len(us[i]) = 2}
    IN  IF stray = {} THEN us
        ELSE LET i == Min(stray)
                 n == 1 + continuation(us[i], sliceFrom(us, i), 1)
             IN  SubSeq(us, 1, i - 1) \o <<"{FFFD}">> \o replaced(sliceFrom(us, i - 1 + n))

\* buffer.toString('utf-8'): the text of the bytes read
decoded(bs) == replaced(charsOf(bs))

\* open(path, 'w'): the file exists and is empty
truncated(file) == File(<<>>)

\* write(fd, bytes) at the descriptor's offset, in a file another descriptor may have
\* emptied or written to: the bytes the file holds before the offset (zero bytes where
\* it ends earlier), the bytes written, then the bytes the file holds beyond them
written(file, bytes, position) ==
    LET old == bytesOf(file.text)
        before == IF position <= Len(old) THEN SubSeq(old, 1, position)
                  ELSE old \o [i \in 1..(position - Len(old)) |-> "{nul}"]
    IN  File(charsOf(before \o bytes \o sliceFrom(old, position + Len(bytes))))

-----------------------------------------------------------------------------
(* fs.readFile and fs.writeFile, request by request *)

\* readFile opens the file, takes its size, and reads; writeFile opens the file with
\* flag 'w', which truncates it, and writes.  Each request is served by the thread pool,
\* and between two of them the event loop runs whatever else is ready.  A handler that
\* reads a file, edits the text and writes it back is, for the files, this sequence:
\*   open for reading | fstat | read, one request per buffer, until the size is reached
\*   or nothing comes | open for writing | write, one request per chunk
\* The descriptor is closed after the read and after the write; closing changes nothing
\* another invocation can see.

Invocations == {1, 2}

\* The most bytes one read request asks for, for a file of known size and for a file
\* whose size fstat gave as 0, and the most bytes one write request hands over.
kReadFileBufferLength == 524288
kReadFileUnknownBufferLength == 65536
kWriteFileMaxChunkSize == 524288

readFile(name) == [op |-> "readFile", file |-> name, section |-> <<>>, content |-> <<>>]

\* The call capture(text) makes of the capture file.
captureCall(text) == [op |-> "capture", file |-> CAPTURE, section |-> Inbox, content |-> text]

markProcessedCall == [op |-> "markProcessed", file |-> CAPTURE, section |-> <<>>, content |-> <<>>]

\* No call in flight.  at: the request that comes next.  size, pos, got: the size fstat
\* gave, the offset of the descriptor, the bytes read so far.  read: what readFile gave
\* the handler.  out: the text handed to writeFile.  seq: history, the place of the
\* write among the writes of all invocations.
Idle ==
    [at |-> "idle", op |-> NoOp, size |-> 0, pos |-> 0, got |-> <<>>, read |-> NoFile,
     out |-> <<>>, seq |-> 0]

NoCalls == [p \in Invocations |-> Idle]

\* The text a handler makes of the file it read.
edited(op, file) ==
    CASE op.op = "capture" -> capture(file, op.content)
      [] op.op = "addToFile" -> addToFile(file, op.file, op.section, op.content)
      [] op.op = "saveToContent" -> saveToContent(file, op.content)
      [] op.op = "saveToResearch" -> saveToResearch(file, op.content)
      [] op.op = "saveReview" -> saveReview(file, op.content)
      [] op.op = "markProcessed" -> markedText(file.text, noError(results))

\* readFile has settled: with the text, or raising (NoFile).  A bare read is over;
\* markProcessed lets the raise through; every other handler takes its boilerplate for
\* a file it could not read, edits the text and calls writeFile.
settled(c, file) ==
    IF c.op.op = "readFile" \/ (c.op.op = "markProcessed" /\ ~file.exists)
    THEN [c EXCEPT !.at = IF file.exists THEN "done" ELSE "raised", !.read = file,
                   !.size = 0, !.pos = 0, !.got = <<>>]
    ELSE [c EXCEPT !.at = "open", !.read = file, !.out = edited(c.op, file),
                   !.size = 0, !.pos = 0, !.got = <<>>]

\* The handler calls readFile and the file is opened: ENOENT when it does not exist.
begun(op, file) ==
    IF file.exists THEN [Idle EXCEPT !.at = "fstat", !.op = op]
    ELSE settled([Idle EXCEPT !.op = op], NoFile)

\* The handler calls writeFile without having read.
beginWrite(op, text) == [Idle EXCEPT !.at = "open", !.op = op, !.out = text]

\* fstat(fd): the size of the file, in bytes
FileStat(p) ==
    /\ io[p].at = "fstat"
    /\ io' = [io EXCEPT ![p].at = "read", ![p].size = byteLength(fs[io[p].op.file].text)]
    /\ UNCHANGED <<fs, pc, items, results, ret, fs0, own, calls, run, arg, res>>

\* The read requests readFile can make next, as <<length, short>>: the bytes asked for,
\* and whether a read that comes short of them ends the loop.  For a file of size 0 the
\* buffer for an unknown size is asked for until nothing comes.  Otherwise node reads
\* either up to the size, kReadFileBufferLength bytes at most per request, going on
\* after a short read, or a buffer of min(size, kReadFileBufferLength) bytes per
\* request, ending at a short read; the two loops make the same requests as long as
\* every read filled its buffer.
readRequests(size, total) ==
    IF size = 0 THEN {<<kReadFileUnknownBufferLength, FALSE>>}
    ELSE LET buffer == Min({size, kReadFileBufferLength})
         IN  (IF total < size
              THEN {<<Min({size - total, kReadFileBufferLength}), FALSE>>} ELSE {})
                 \cup (IF total % buffer = 0 THEN {<<buffer, TRUE>>} ELSE {})

\* read(fd, buffer, length): the bytes the file holds now from the descriptor's offset,
\* as many as asked for.  The loop ends when nothing came or the size is reached.
FileRead(p) ==
    /\ io[p].at = "read"
    /\ LET c == io[p]
           onDisk == bytesOf(fs[c.op.file].text)
       IN  \E request \in readRequests(c.size, c.pos) :
               LET last == Min({c.pos + request[1], Len(onDisk)})
                   chunk == IF c.pos < last THEN SubSeq(onDisk, c.pos + 1, last) ELSE <<>>
                   got == c.got \o chunk
                   pos == c.pos + Len(chunk)
                   over == \/ chunk = <<>>
                           \/ pos = c.size
                           \/ request[2] /\ Len(chunk) # request[1]
               IN  io' = [io EXCEPT ![p] =
                             IF over THEN settled(c, File(decoded(got)))
                             ELSE [c EXCEPT !.got = got, !.pos = pos]]
    /\ UNCHANGED <<fs, pc, items, results, ret, fs0, own, calls, run, arg, res>>

\* The writes that have landed.
landed == Cardinality({q \in Invocations : io[q].seq > 0})

\* open(path, 'w'): the file is created or emptied; with nothing to write, writeFile
\* makes no write request and resolves
FileTruncate(p) ==
    /\ io[p].at = "open"
    /\ fs' = [fs EXCEPT ![io[p].op.file] = truncated(@)]
    /\ io' = [io EXCEPT ![p] = IF io[p].out = <<>>
                                  THEN [@ EXCEPT !.at = "done", !.seq = landed + 1]
                                  ELSE [@ EXCEPT !.at = "write"]]
    /\ UNCHANGED <<pc, items, results, ret, fs0, own, calls, run, arg, res>>

\* open(path, 'w') fails (EACCES): writeFile raises and the file is as it was
FileOpenFails(p) ==
    /\ io[p].at = "open"
    /\ io' = [io EXCEPT ![p].at = "raised"]
    /\ UNCHANGED <<fs, pc, items, results, ret, fs0, own, calls, run, arg, res>>

\* write(fd, bytes): the next bytes of the text, kWriteFileMaxChunkSize at most, land
\* at the descriptor's offset; writeFile resolves when none is left
FileWrite(p) ==
    /\ io[p].at = "write"
    /\ LET c == io[p]
           data == bytesOf(c.out)
           length == Min({kWriteFileMaxChunkSize, Len(data) - c.pos})
       IN  /\ fs' = [fs EXCEPT ![c.op.file] =
                        written(@, SubSeq(data, c.pos + 1, c.pos + length), c.pos)]
           /\ io' = [io EXCEPT ![p] =
                        IF c.pos + length = Len(data)
                        THEN [c EXCEPT !.at = "done", !.seq = landed + 1, !.pos = 0]
                        ELSE [c EXCEPT !.pos = c.pos + length]]
    /\ UNCHANGED <<pc, items, results, ret, fs0, own, calls, run, arg, res>>

\* A request of readFile is served.
Reading(p) == FileStat(p) \/ FileRead(p)

\* A request of writeFile is served.
Writing(p) == FileTruncate(p) \/ FileWrite(p)

-----------------------------------------------------------------------------
(* process(): one invocation, step by step (each step ends at an await) *)

\* The lines a capture file is made of at the start.
CaptureLines == {<<"#", "#", " ", "I", "d", "e", "a", "s">>, <<"#", "#", " ", "R", "e", "f", "e",
    "r", "e", "n", "c", "e">>, <<"-", " ", "[", " ", "]", " ", "a">>, <<"-", " ", "[", " ", "]",
    " ", "b">>, <<>>}

CaptureFiles ==
    {NoFile} \cup {File(join(ls)) : ls \in UNION {[1..n -> CaptureLines] : n \in 1..MaxLines}}

\* What the model may answer to the classification prompt.
ProcessReplies == {<<"t", "a", "s", "k">>, <<" ", "I", "d", "e", "a", "\n">>, <<"c", "l", "i",
    "e", "n", "t">>, <<"p", "r", "o", "j", "e", "c", "t">>, <<"m", "a", "y", "b", "e">>}

\* The line index at which route() puts a new line into the capture file, or -1.
insertedAt(files, item, category) ==
    LET r == routes(category, item.text)
        fileContent == readOrHeader(files[CAPTURE], CAPTURE)
        at == insertionPoint(fileContent, r.section)
    IN  IF r.action = "keep" \/ r.file # CAPTURE \/ at = -1 THEN -1
        ELSE Cardinality({k \in 1..at : fileContent[k] = "\n"})

shifted(o, at) ==
    [i \in DOMAIN o |-> IF at # -1 /\ o[i] >= at THEN o[i] + 1 ELSE o[i]]

InitProcess ==
    /\ io = NoCalls
    /\ fs \in {[NoFiles EXCEPT ![CAPTURE] = c] : c \in CaptureFiles}
    /\ fs0 = fs
    /\ pc = "start"
    /\ items = <<>>
    /\ results = <<>>
    /\ own = <<>>
    /\ ret = [processed |-> -1, items |-> <<>>]
    /\ calls = <<>>
    /\ run = <<>>
    /\ arg = <<>>
    /\ res = <<>>

\* process(), line 45: getPendingItems calls readFile (line 77)
ProcessStart ==
    /\ pc = "start"
    /\ io[1].at = "idle"
    /\ io' = [io EXCEPT ![1] = begun(readFile(CAPTURE), fs[CAPTURE])]
    /\ pc' = "scan"
    /\ UNCHANGED <<fs, fs0, items, results, own, ret, calls, arg, res, run>>

\* process(), lines 45-54: the scan of what was read, and the early return on an empty
\* inbox
ProcessScan ==
    /\ pc = "scan"
    /\ io[1].at \in {"done", "raised"}
    /\ items' = getPendingItems(io[1].read)
    /\ own' = [i \in 1..Len(items') |-> items'[i].line]
    /\ results' = <<>>
    /\ IF Len(items') = 0
       THEN pc' = "done" /\ ret' = [processed |-> 0, items |-> <<>>]
       ELSE pc' = "loop" /\ UNCHANGED ret
    /\ io' = [io EXCEPT ![1] = Idle]
    /\ UNCHANGED <<fs, fs0, calls, arg, res, run>>

nextPc(rs) == IF Len(rs) = Len(items) THEN "mark" ELSE "loop"

\* process(), lines 55-64, with processItem: callLLM raises
ProcessItemLLMFails ==
    /\ pc = "loop"
    /\ LET item == items[Len(results) + 1]
       IN  results' = Append(results, [item |-> item, category |-> <<>>, error |-> "fetch failed"])
    /\ pc' = nextPc(results')
    /\ UNCHANGED <<fs, fs0, items, own, ret, calls, arg, res, run, io>>

\* processItem once the reply is categorized: route(), and unless the item is kept where
\* it is, addToFile calls readFile (line 197)
routed(item, category) ==
    LET call == route(item, category)
    IN  IF call = NoOp
        THEN /\ results' = Append(results, [item |-> item, category |-> category, error |-> ""])
             /\ pc' = nextPc(results')
             /\ UNCHANGED <<run, io>>
        ELSE /\ run' = [item |-> item, category |-> category]
             /\ io' = [io EXCEPT ![1] = begun(call, fs[call.file])]
             /\ pc' = "route"
             /\ UNCHANGED results

\* process(), lines 55-64, with processItem: the reply categorized, and the item routed
ProcessItem ==
    /\ pc = "loop"
    /\ \E response \in ProcessReplies :
           routed(items[Len(results) + 1], categorize(response))
    /\ UNCHANGED <<fs, fs0, items, own, ret, calls, arg, res>>

\* process(), lines 55-64, with processItem: addToFile has written the destination
\* (line 214), and the result is recorded
ProcessItemRouted ==
    /\ pc = "route"
    /\ io[1].at = "done"
    /\ own' = shifted(own, insertedAt([fs EXCEPT ![io[1].op.file] = io[1].read],
                                       run.item, run.category))
    /\ results' = Append(results, [item |-> run.item, category |-> run.category, error |-> ""])
    /\ pc' = nextPc(results')
    /\ run' = <<>>
    /\ io' = [io EXCEPT ![1] = Idle]
    /\ UNCHANGED <<fs, fs0, items, ret, calls, arg, res>>

\* process(), lines 60-63: the writeFile of addToFile (line 214) raised, and the error is
\* recorded
ProcessItemRouteFails ==
    /\ pc = "route"
    /\ io[1].at = "raised"
    /\ results' = Append(results, [item |-> run.item, category |-> <<>>, error |-> "EACCES"])
    /\ pc' = nextPc(results')
    /\ run' = <<>>
    /\ io' = [io EXCEPT ![1] = Idle]
    /\ UNCHANGED <<fs, fs0, items, own, ret, calls, arg, res>>

\* process(), line 67: markProcessed calls readFile (line 218)
ProcessMark ==
    /\ pc = "mark"
    /\ io' = [io EXCEPT ![1] = begun(markProcessedCall, fs[CAPTURE])]
    /\ pc' = "marking"
    /\ UNCHANGED <<fs, fs0, items, results, own, ret, calls, arg, res, run>>

\* process(), lines 67-71: markProcessed has written the capture file (line 231), and
\* the value is returned
ProcessReturn ==
    /\ pc = "marking"
    /\ io[1].at = "done"
    /\ ret' = [processed |-> Len(noError(results)), items |-> results]
    /\ pc' = "done"
    /\ io' = [io EXCEPT ![1] = Idle]
    /\ UNCHANGED <<fs, fs0, items, results, own, calls, arg, res, run>>

\* process(), line 67: the readFile (line 218) or the writeFile (line 231) of
\* markProcessed raised, and so does process()
ProcessRaise ==
    /\ pc = "marking"
    /\ io[1].at = "raised"
    /\ pc' = "raised"
    /\ io' = [io EXCEPT ![1] = Idle]
    /\ UNCHANGED <<fs, fs0, items, results, own, ret, calls, arg, res, run>>

\* The steps of process() between its file requests.
ProcessSteps ==
    \/ ProcessStart
    \/ ProcessScan
    \/ ProcessItemLLMFails
    \/ ProcessItem
    \/ ProcessItemRouted
    \/ ProcessItemRouteFails
    \/ ProcessMark
    \/ ProcessReturn
    \/ ProcessRaise

NextProcess == ProcessSteps \/ Reading(1) \/ Writing(1) \/ FileOpenFails(1)

SpecProcess == InitProcess /\ [][NextProcess]_vars

-----------------------------------------------------------------------------
(* Claims about process() *)

linesOf(file) == IF file.exists THEN split(file.text) ELSE <<>>

\* How many lines of the file equal the given line.
countLines(file, line) == Cardinality({k \in DOMAIN linesOf(file) : linesOf(file)[k] = line})

\* The line of the capture file that now holds item i.
ownLine(i) ==
    IF own[i] + 1 \in DOMAIN linesOf(fs[CAPTURE]) THEN linesOf(fs[CAPTURE])[own[i] + 1] ELSE <<>>

\* Item i was categorized into a non-task category and routed without error.
Routed(i) == results[i].error = "" /\ results[i].category # <<"t", "a", "s", "k">>

\* The successfully routed items whose formatted line is the one of item i, in the same file.
SameDestination(i) ==
    {j \in DOMAIN results :
        /\ Routed(j)
        /\ routes(results[j].category, items[j].text).file
               = routes(results[i].category, items[i].text).file
        /\ routes(results[j].category, items[j].text).line
               = routes(results[i].category, items[i].text).line}

\* The destination of item i holds one more formatted line per item routed to it.
DestinationGained(i) ==
    LET r == routes(results[i].category, items[i].text)
    IN  countLines(fs[r.file], r.line)
            = countLines(fs0[r.file], r.line) + Cardinality(SameDestination(i))

\* C1: after process(), every item categorized as non-task and routed without error has
\* its own source line changed to "- [x] <text>", and its destination gained exactly one
\* formatted line for it, whatever the other items of the batch were routed to.
C1_MarkedAndRouted ==
    pc = "done" =>
        \A i \in DOMAIN results :
            Routed(i) =>
                /\ ownLine(i) = Checked \o <<" ">> \o items[i].text
                /\ DestinationGained(i)

\* C2: after process(), every item categorized as task still has its own source line
\* equal to "- [ ] <text>".
C2_TaskLineKept ==
    pc = "done" =>
        \A i \in DOMAIN results :
            (results[i].error = "" /\ results[i].category = <<"t", "a", "s", "k">>) =>
                ownLine(i) = Unchecked \o <<" ">> \o items[i].text

\* C9: after process(), an item whose categorizing or routing failed is recorded with an
\* error, its own source line is still "- [ ] <text>", no destination line was written
\* for it (each destination holds one line per routed item and no more), and process()
\* returned a result.
C9_FailedItemIsolated ==
    pc = "done" =>
        /\ ret.processed >= 0
        /\ \A i \in DOMAIN results :
               results[i].error # "" =>
                   /\ ret.items[i].error # ""
                   /\ ownLine(i) = Unchecked \o <<" ">> \o items[i].text
        /\ \A i \in DOMAIN results : Routed(i) => DestinationGained(i)

\* C10: process() returns one entry per pending item of the scan, in scan order, and
\* a processed count equal to the number of entries without an error; with an unreadable
\* capture file it returns processed = 0 and an empty list and writes no file.
C10_ResultShape ==
    pc = "done" =>
        /\ Len(ret.items) = Len(getPendingItems(fs0[CAPTURE]))
        /\ \A i \in DOMAIN ret.items : ret.items[i].item = getPendingItems(fs0[CAPTURE])[i]
        /\ ret.processed = Cardinality({i \in DOMAIN ret.items : ret.items[i].error = ""})
        /\ (~fs0[CAPTURE].exists => ret.processed = 0 /\ ret.items = <<>> /\ fs = fs0)

\* C10, reached: a finished run over two items, one recorded with an error, one without.
C10_Witness ==
    /\ pc = "done"
    /\ Len(ret.items) >= 2
    /\ \E i, j \in DOMAIN ret.items : ret.items[i].error # "" /\ ret.items[j].error = ""


\* The line of item i now begins with the checked box.
Flipped(i) == startsWith(ownLine(i), Checked, 0)

\* C16: an item is routed only once categorized; the line of an item is flipped to
\* "- [x]" only after that item was categorized and routed without error; and no line is
\* flipped before every pending item of the batch has been attempted.
C16_ItemLifecycle ==
    \A i \in DOMAIN items :
        /\ (i \in DOMAIN results /\ results[i].error = "") =>
               results[i].category \in validCategories
        /\ Flipped(i) =>
               /\ pc \in {"marking", "done"} /\ Len(results) = Len(items)
               /\ results[i].error = ""
-----------------------------------------------------------------------------
(* categorize(): applied to one reply of the model *)

\* Replies without surrounding whitespace: the category names in three spellings, and
\* replies that are no category name.
ReplyCores ==
    {<<"t", "a", "s", "k">>, <<"T", "A", "S", "K">>, <<"T", "a", "s", "k">>, <<"p", "r", "o", "j",
        "e", "c", "t">>, <<"P", "R", "O", "J", "E", "C", "T">>, <<"P", "r", "o", "j", "e", "c",
        "t">>,
     <<"r", "e", "s", "e", "a", "r", "c", "h">>, <<"R", "E", "S", "E", "A", "R", "C",
         "H">>, <<"R", "e", "s", "e", "a", "r", "c", "h">>, <<"c", "o", "n", "t", "e", "n",
         "t">>, <<"C", "O", "N", "T", "E", "N", "T">>, <<"C", "o", "n", "t", "e", "n", "t">>,
     <<"c", "l", "i", "e", "n", "t">>, <<"C", "L", "I", "E", "N", "T">>, <<"C", "l", "i", "e",
         "n", "t">>, <<"r", "e", "f", "e", "r", "e", "n", "c", "e">>, <<"R", "E", "F", "E", "R",
         "E", "N", "C", "E">>, <<"R", "e", "f", "e", "r", "e", "n", "c", "e">>,
     <<"i", "d", "e", "a">>, <<"I", "D", "E", "A">>, <<"I", "d", "e", "a">>,
     <<>>, <<"t", "a", "s", "k", "s">>, <<"t", "a", " ", "s", "k">>, <<"t", "a", "s", "k",
         ".">>, <<"n", "o", "n", "e">>, <<"a", "n", " ", "i", "d", "e", "a">>, <<"c", "l", "i",
         "e", "n", "t", "\n", "t", "a", "s", "k">>}

Pads == UNION {[1..n -> WhiteSpace] : n \in 0..MaxPad}

Replies == {l \o core \o r : l \in Pads, core \in ReplyCores, r \in Pads}

InitCategorize ==
    /\ io = NoCalls
    /\ arg \in Replies
    /\ res = <<>>
    /\ pc = "start"
    /\ fs = NoFiles
    /\ fs0 = NoFiles
    /\ items = <<>>
    /\ results = <<>>
    /\ own = <<>>
    /\ ret = [processed |-> -1, items |-> <<>>]
    /\ calls = <<>>
    /\ run = <<>>

\* categorize(text), lines 131-135, on the reply callLLM returned
Categorize ==
    /\ pc = "start"
    /\ res' = categorize(arg)
    /\ pc' = "done"
    /\ UNCHANGED <<fs, fs0, items, results, own, ret, calls, arg, run, io>>

NextCategorize == Categorize

SpecCategorize == InitCategorize /\ [][NextCategorize]_vars

\* The reply is the category name c in some letter case, between runs of whitespace.
IsSpellingOf(reply, c) ==
    \E i \in 0..Len(reply) :
        /\ i + Len(c) <= Len(reply)
        /\ \A k \in 1..i : reply[k] \in WhiteSpace
        /\ \A k \in (i + Len(c) + 1)..Len(reply) : reply[k] \in WhiteSpace
        /\ \A k \in 1..Len(c) : toLowerCase(<<reply[i + k]>>) = <<c[k]>>

\* C3: categorize returns one of the seven categories for every reply: the category the
\* reply spells once trimmed and lower-cased, and reference for every other reply.
C3_CategorizeTotal ==
    pc = "done" =>
        /\ res \in validCategories
        /\ \A c \in validCategories : IsSpellingOf(arg, c) => res = c
        /\ (\A c \in validCategories : ~IsSpellingOf(arg, c)) => res = <<"r", "e", "f", "e", "r",
            "e", "n", "c", "e">>

\* C3, reached: a padded, capitalised reply was mapped to its category.
C3_Witness ==
    /\ pc = "done"
    /\ arg # res
    /\ res # <<"r", "e", "f", "e", "r", "e", "n", "c", "e">>
    /\ Head(arg) \in WhiteSpace
    /\ IsSpellingOf(arg, res)

-----------------------------------------------------------------------------
(* The section editor: addToFile, capture and saveToContent, called in turn or together *)

EditorLines == {<<"#", "#", " ", "N", "o", "t", "e", "s">>, <<"#", "#", " ", "I", "n", "b", "o",
    "x">>, <<"#", "#", " ", "D", "r", "a", "f", "t", "s">>, <<"-", " ", "o", "l", "d">>, <<>>}

EditorFiles ==
    {NoFile} \cup {File(join(ls)) : ls \in UNION {[1..n -> EditorLines] : n \in 1..MaxEditLines}}

EditorAnchors == {<<"#", "#", " ", "N", "o", "t", "e", "s">>, <<"#", "#", " ", "I", "d", "e", "a",
    "s">>}
EditorFragments == {<<"-", " ", "x">>, <<"-", " ", "y">>}
EditorTexts == {<<"n", "e", "w">>}
EditorDrafts == {<<"#", "#", "#", " ", "t", "\n", "\n", "d", "r", "a", "f", "t", "\n", "\n", "-",
    "-", "-", "\n">>}

InitEditor ==
    /\ io = NoCalls
    /\ \E c \in EditorFiles :
           fs = [f \in FileNames |-> IF f \in {CLIENTS, CAPTURE, CONTENT} THEN c ELSE NoFile]
    /\ fs0 = fs
    /\ calls = <<>>
    /\ run = [p \in Invocations |-> 0]
    /\ pc = "start"
    /\ items = <<>>
    /\ results = <<>>
    /\ own = <<>>
    /\ ret = [processed |-> -1, items |-> <<>>]
    /\ arg = <<>>
    /\ res = <<>>

\* A call that has returned: the site, its anchor and fragment, the text it spliced in,
\* the text it read (or its boilerplate) and the text it wrote, and how many calls had
\* returned when it was made.
Call(site, anchor, fragment, inserted, before, after, seen) ==
    [site |-> site, anchor |-> anchor, fragment |-> fragment, inserted |-> inserted,
     before |-> before, after |-> after, seen |-> seen]

\* The calls made so far, returned or not.
made == Len(calls) + Cardinality({p \in Invocations : io[p].at # "idle"})

\* A handler is called, as one of at most `most` calls, and calls readFile.
called(p, op, most) ==
    /\ io[p].at = "idle"
    /\ made < most
    /\ io' = [io EXCEPT ![p] = begun(op, fs[op.file])]
    /\ run' = [run EXCEPT ![p] = Len(calls)]
    /\ UNCHANGED <<fs, pc, items, results, ret, fs0, own, calls, arg, res>>

\* addToFile(CLIENTS.md, section, content): readFile called (line 197)
EditAddToFile(p) ==
    \E section \in EditorAnchors, content \in EditorFragments :
        called(p, [op |-> "addToFile", file |-> CLIENTS, section |-> section,
                   content |-> content], MaxCalls)

\* capture(text): readFile called (line 262)
EditCapture(p) ==
    \E text \in EditorTexts :
        called(p, [op |-> "capture", file |-> CAPTURE, section |-> Inbox, content |-> text], MaxCalls)

\* saveToContent(topic, output, type): readFile called (line 210)
EditSaveToContent(p) ==
    \E output \in EditorDrafts :
        called(p, [op |-> "saveToContent", file |-> CONTENT, section |-> Drafts,
                   content |-> output], MaxCalls)

\* The text a site splices in.
inserted(op) ==
    CASE op.op = "addToFile" -> op.content \o NL
      [] op.op = "capture" -> NL \o Unchecked \o <<" ">> \o op.content
      [] op.op = "saveToContent" -> NL \o op.content

\* The text a site edits: what readFile gave, or the boilerplate when it raised.
editedFrom(op, file) ==
    CASE op.op = "addToFile" -> readOrHeader(file, op.file)
      [] op.op = "capture" -> captureRead(file)
      [] op.op = "saveToContent" -> contentRead(file)

\* addToFile line 214, capture line 282, saveToContent line 230: writeFile has resolved
\* and the call returns
EditReturn(p) ==
    /\ io[p].at = "done"
    /\ calls' = Append(calls, Call(io[p].op.op, io[p].op.section, io[p].op.content,
                                   inserted(io[p].op), editedFrom(io[p].op, io[p].read),
                                   io[p].out, run[p]))
    /\ io' = [io EXCEPT ![p] = Idle]
    /\ UNCHANGED <<fs, pc, items, results, ret, fs0, own, arg, res, run>>

NextEditor ==
    \E p \in Invocations :
        \/ EditAddToFile(p)
        \/ EditCapture(p)
        \/ EditSaveToContent(p)
        \/ Reading(p)
        \/ Writing(p)
        \/ EditReturn(p)

SpecEditor == InitEditor /\ [][NextEditor]_vars

\* Every call made has returned, and each was made when the ones before it had returned.
InTurn == made = Len(calls) /\ \A k \in DOMAIN calls : calls[k].seen = k - 1

\* One call was made, and has returned.
Alone == Len(calls) = 1 /\ made = 1

\* How often pat occurs in s.
occurrences(s, pat) == Cardinality({i \in 0..(Len(s) - Len(pat)) : startsWith(s, pat, i)})

\* Two calls were made and have returned, the second made when the first had returned:
\* addToFile with one anchor, on a file that was empty or missing and did not hold the
\* anchor.
TwoInsertsFromNothing ==
    /\ Len(calls) = 2
    /\ made = 2
    /\ calls[2].seen = 1
    /\ calls[1].site = "addToFile" /\ calls[2].site = "addToFile"
    /\ calls[1].anchor = calls[2].anchor
    /\ fs0[CLIENTS].text = <<>>
    /\ ~includes(calls[1].before, calls[1].anchor)

\* C4 as claimed: two inserts with an anchor the empty or missing file does not hold leave
\* two sections, the anchor heading occurring twice, each with its own fragment.
C4_TwoSections ==
    TwoInsertsFromNothing =>
        /\ occurrences(fs[CLIENTS].text, calls[1].anchor) = 2
        /\ includes(fs[CLIENTS].text, calls[1].fragment)
        /\ includes(fs[CLIENTS].text, calls[2].fragment)

\* C4 as amended: the first insert appends the section, the second finds it: the anchor
\* heading occurs once, the second fragment is the line below it and the first fragment
\* follows, each verbatim.
C4_OneSection ==
    TwoInsertsFromNothing =>
        /\ occurrences(fs[CLIENTS].text, calls[1].anchor) = 1
        /\ fs[CLIENTS].text =
               readOrHeader(fs0[CLIENTS], CLIENTS) \o NL \o calls[1].anchor \o NL
                   \o calls[2].fragment \o NL \o NL \o calls[1].fragment \o NL

\* C4, reached: two inserts of different fragments under one anchor into a missing file.
C4_Witness ==
    /\ TwoInsertsFromNothing
    /\ ~fs0[CLIENTS].exists
    /\ calls[1].fragment # calls[2].fragment

\* Where the line after the first occurrence of the anchor starts: past the next line
\* break, or at the end of the text when the anchor is on the last line.
followingLineStart(text, anchor) ==
    LET i == indexOf(text, anchor, 0)
        breaks == {k \in i..(Len(text) - 1) : text[k + 1] = "\n"}
    IN  IF breaks = {} THEN Len(text) ELSE Min(breaks) + 1

\* C5: whenever the text read holds the anchor, what is written is the text read with the
\* fragment spliced in at the start of the line that follows the first occurrence of the
\* anchor, everything else unchanged and in order; at each of the three splice sites.
C5_InsertAfterAnchor ==
    \A k \in DOMAIN calls :
        includes(calls[k].before, calls[k].anchor) =>
            LET p == followingLineStart(calls[k].before, calls[k].anchor)
            IN  calls[k].after =
                    slice(calls[k].before, 0, p) \o calls[k].inserted
                        \o sliceFrom(calls[k].before, p)

-----------------------------------------------------------------------------
(* Research Agent *)

\* What a lookup in an object literal gives: a number of the literal, or for a name
\* the literal does not hold a member it inherits from Object.prototype, a function
\* (the prototype itself for __proto__), which is truthy.
Number(n) == [type |-> "number", value |-> n]
Inherited(name) == [type |-> IF name = "__proto__" THEN "object" ELSE "function", name |-> name]
ObjectPrototype ==
    {"constructor", "hasOwnProperty", "isPrototypeOf", "propertyIsEnumerable", "toLocaleString",
     "toString", "valueOf", "__proto__", "__defineGetter__", "__defineSetter__",
     "__lookupGetter__", "__lookupSetter__"}

\* ToNumber of such a value is NaN unless it is a number.  slice(0, v) takes NaN as 0,
\* and n >= NaN is false.
toIntegerOrInfinity(v) == IF v.type = "number" THEN v.value ELSE 0
greaterOrEqual(n, v) == v.type = "number" /\ n >= v.value

\* { quick: 1, standard: 3, deep: 5 }[depth] || 3
searchCount(depth) ==
    CASE depth = "quick" -> Number(1) [] depth = "standard" -> Number(3)
      [] depth = "deep" -> Number(5)
      [] depth \in ObjectPrototype -> Inherited(depth)
      [] OTHER -> Number(3)

\* { quick: 2, standard: 5, deep: 10 }[depth] || 5
maxSources(depth) ==
    CASE depth = "quick" -> Number(2) [] depth = "standard" -> Number(5)
      [] depth = "deep" -> Number(10)
      [] depth \in ObjectPrototype -> Inherited(depth)
      [] OTHER -> Number(5)

\* response.split('\n').map(q => q.trim()).filter(q => q.length > 0)
trimmedLines(response) ==
    LET lines == split(response)
    IN  SelectSeq([i \in DOMAIN lines |-> trim(lines[i])], LAMBDA q : Len(q) > 0)

generateSearchQueriesUncut(topic, count, response) ==
    LET queries == first(trimmedLines(response), toIntegerOrInfinity(count))
    IN  IF \E i \in DOMAIN queries : queries[i] = topic THEN queries ELSE <<topic>> \o queries

generateSearchQueriesTopicLast(topic, count, response) ==
    LET queries == first(trimmedLines(response), toIntegerOrInfinity(count))
        withTopic ==
            IF \E i \in DOMAIN queries : queries[i] = topic THEN queries ELSE queries \o <<topic>>
    IN  first(withTopic, toIntegerOrInfinity(count))

\* generateSearchQueries(topic, count, context), given the model's reply
generateSearchQueries(topic, count, response) ==
    LET queries == first(trimmedLines(response), toIntegerOrInfinity(count))
        withTopic ==
            IF \E i \in DOMAIN queries : queries[i] = topic THEN queries ELSE <<topic>> \o queries
    IN  first(withTopic, toIntegerOrInfinity(count))

\* braveSearch(query) without BRAVE_API_KEY: one placeholder result
mockResults(query) ==
    <<[title |-> <<"S", "e", "a", "r", "c", "h", " ", "r", "e", "s", "u", "l", "t", " ", "f", "o",
        "r", ":", " ">> \o query,
       url |-> <<"h", "t", "t", "p", "s", ":", "/", "/", "e", "x", "a", "m", "p", "l", "e", ".",
           "c", "o", "m">>,
       snippet |-> <<"A", "P", "I", " ", "k", "e", "y", " ", "n", "o", "t", " ", "c", "o", "n",
           "f", "i", "g", "u", "r", "e", "d", ".", " ", "S", "e", "t", " ", "B", "R", "A", "V",
           "E", "_", "A", "P", "I", "_", "K", "E", "Y", " ", "f", "o", "r", " ", "r", "e", "a",
           "l", " ", "s", "e", "a", "r", "c", "h", " ", "r", "e", "s", "u", "l", "t", "s", ".">>]>>

\* fetchSources: the two nested loops, over the results of every query in turn
RECURSIVE flatten(_)
flatten(searchResults) ==
    IF searchResults = <<>> THEN <<>>
    ELSE LET sr == Head(searchResults)
         IN  [i \in DOMAIN sr.results |->
                 [title |-> sr.results[i].title, url |-> sr.results[i].url,
                  snippet |-> sr.results[i].snippet, query |-> sr.query]]
                 \o flatten(Tail(searchResults))

RECURSIVE fetchLoop(_, _, _, _)
fetchLoop(flat, sources, seenUrls, max) ==
    IF flat = <<>> THEN sources
    ELSE IF Head(flat).url \in seenUrls \/ greaterOrEqual(Len(sources), max)
         THEN fetchLoop(Tail(flat), sources, seenUrls, max)
         ELSE fetchLoop(Tail(flat), Append(sources, Head(flat)),
                        seenUrls \cup {Head(flat).url}, max)

fetchSourcesKeepsRepeats(searchResults, depth) ==
    first(flatten(searchResults), toIntegerOrInfinity(maxSources(depth)))

\* fetchSources(searchResults, depth)
fetchSources(searchResults, depth) ==
    fetchLoop(flatten(searchResults), <<>>, {}, maxSources(depth))

\* formatReport: the numbered source list
sourcesList(sources) ==
    join([i \in DOMAIN sources |->
             toString(i) \o <<".", " ", "[">> \o sources[i].title \o <<"]",
                 "(">> \o sources[i].url \o <<")">>])

\* formatReport(topic, synthesis, sources)
formatReport(topic, synthesis, sources) ==
    <<"#", "#", " ">> \o topic \o <<"\n", "\n", ">", " ", "R", "e", "s", "e", "a", "r", "c", "h",
        "e", "d", ":", " ">> \o date \o <<"\n", ">", " ", "S", "o", "u", "r", "c", "e", "s", ":",
        " ">>
        \o toString(Len(sources)) \o <<"\n", "\n">> \o synthesis \o <<"\n", "\n", "#", "#", "#",
            " ", "S", "o", "u", "r", "c", "e", "s", "\n">>
        \o sourcesList(sources) \o <<"\n", "\n", "-", "-", "-", "\n">>

-----------------------------------------------------------------------------
(* research(): one invocation, step by step *)

Topics == {<<"a", "i">>}
\* The three depths, a name the tables do not hold, and one they inherit.
Depths == {"quick", "standard", "deep", "other", "constructor"}

\* What the model may answer when asked for queries.
QueryReplies ==
    {<<>>, <<"q", "1">>, <<"a", "i", "\n", "q", "1", "\n", "q", "2">>, <<"q", "1", "\n", " ", "q",
        "2", " ", "\n", "\n", "q", "3", "\n", "q", "4", "\n", "q", "5", "\n", "q", "6", "\n", "q",
        "7">>, <<"q", "1", "\n", "q", "2", "\n", "q", "3", "\n", "q", "4", "\n", "q", "5", "\n",
        "a", "i">>}

\* What the model may answer when asked to synthesize.
SynthesisReplies == {<<"F", "i", "n", "d", "i", "n", "g", "s", " ", "[", "1", "]">>}

ResearchFiles == {NoFile, File(<<"#", " ", "R", "\n", "\n", "-", "-", "-", "\n", "\n", "#", "#",
    " ", "T", "o", " ", "R", "e", "s", "e", "a", "r", "c", "h", "\n">>), File(<<"#", " ", "R",
    "\n">>)}

\* Results whose URLs no other query returns: u<k><j>.
distinctResults(k) ==
    [j \in 1..MaxResults |->
        [title |-> <<"T">> \o toString(k) \o toString(j),
         url |-> <<"u">> \o toString(k) \o toString(j),
         snippet |-> <<"n">> \o toString(k) \o toString(j)]]

\* Results every query returns, under titles of its own, one URL twice.
sharedResults(k) ==
    <<[title |-> <<"A">> \o toString(k), url |-> <<"s", "1">>, snippet |-> <<"a">> \o toString(k)],
      [title |-> <<"B">> \o toString(k), url |-> <<"s", "2">>, snippet |-> <<"b">> \o toString(k)],
      [title |-> <<"C">> \o toString(k), url |-> <<"s", "1">>, snippet |-> <<"c">> \o toString(k)]>>

\* What the provider may return for the k-th query; <<>> is also what webSearch returns
\* when the provider fails.
ProviderResults(k) == {<<>>, distinctResults(k), sharedResults(k)}

InitResearch ==
    /\ io = NoCalls
    /\ arg \in [topic : Topics, depth : Depths, apiKey : BOOLEAN, save : BOOLEAN]
    /\ \E c \in ResearchFiles : fs = [NoFiles EXCEPT ![RESEARCH] = c]
    /\ fs0 = fs
    /\ run = [response |-> <<>>, queries |-> <<>>, searchResults |-> <<>>, sources |-> <<>>,
              synthesis |-> <<>>]
    /\ pc = "start"
    /\ ret = <<>>
    /\ items = <<>>
    /\ results = <<>>
    /\ own = <<>>
    /\ calls = <<>>
    /\ res = <<>>

\* research(), line 55: generateSearchQueries
ResearchQueries ==
    /\ pc = "start"
    /\ \E response \in QueryReplies :
         run' = [run EXCEPT !.response = response,
                            !.queries = generateSearchQueries(arg.topic,
                                            searchCount(arg.depth), response)]
    /\ pc' = IF run'.queries = <<>> THEN "fetch" ELSE "search"
    /\ UNCHANGED <<fs, fs0, ret, items, results, own, calls, arg, res, io>>

\* research(), line 55: callLLM raises, and so does research()
ResearchQueriesLLMFails ==
    /\ pc = "start"
    /\ pc' = "raised"
    /\ UNCHANGED <<fs, fs0, run, ret, items, results, own, calls, arg, res, io>>

\* research(), lines 60-68: webSearch for the next query
ResearchSearch ==
    /\ pc = "search"
    /\ LET k == Len(run.searchResults) + 1
           query == run.queries[k]
       IN  \E found \in (IF arg.apiKey THEN ProviderResults(k) ELSE {mockResults(query)}) :
               run' = [run EXCEPT !.searchResults = Append(@, [query |-> query, results |-> found])]
    /\ pc' = IF Len(run'.searchResults) = Len(run.queries) THEN "fetch" ELSE "search"
    /\ UNCHANGED <<fs, fs0, ret, items, results, own, calls, arg, res, io>>

\* research(), line 71: fetchSources
ResearchFetch ==
    /\ pc = "fetch"
    /\ run' = [run EXCEPT !.sources = fetchSources(run.searchResults, arg.depth)]
    /\ pc' = "synth"
    /\ UNCHANGED <<fs, fs0, ret, items, results, own, calls, arg, res, io>>

\* The call saveToResearch makes of the report.
saveToResearchCall(report) ==
    [op |-> "saveToResearch", file |-> RESEARCH, section |-> Divider, content |-> report]

\* research(), lines 79-93 once synthesize has resolved: formatReport, and with save
\* saveToResearch calls readFile (line 237); without it the value is returned
synthesized(synthesis) ==
    LET report == formatReport(arg.topic, synthesis, run.sources)
    IN  /\ run' = [run EXCEPT !.synthesis = synthesis]
        /\ IF arg.save
           THEN /\ io' = [io EXCEPT ![1] = begun(saveToResearchCall(report), fs[RESEARCH])]
                /\ pc' = "save"
                /\ UNCHANGED ret
           ELSE /\ ret' = [topic |-> arg.topic, synthesis |-> synthesis,
                           sources |-> run.sources, report |-> report]
                /\ pc' = "done"
                /\ UNCHANGED io

\* research(), lines 76-85: synthesize, formatReport, and the save begun
ResearchFinish ==
    /\ pc = "synth"
    /\ \E synthesis \in SynthesisReplies : synthesized(synthesis)
    /\ UNCHANGED <<fs, fs0, items, results, own, calls, arg, res>>

\* research(), lines 85-93: saveToResearch has written the file (line 250), and the
\* value is returned
ResearchReturn ==
    /\ pc = "save"
    /\ io[1].at = "done"
    /\ ret' = [topic |-> arg.topic, synthesis |-> run.synthesis, sources |-> run.sources,
               report |-> io[1].op.content]
    /\ pc' = "done"
    /\ io' = [io EXCEPT ![1] = Idle]
    /\ UNCHANGED <<fs, fs0, run, items, results, own, calls, arg, res>>

\* research(), line 76: callLLM raises, and so does research()
ResearchSynthesisLLMFails ==
    /\ pc = "synth"
    /\ pc' = "raised"
    /\ UNCHANGED <<fs, fs0, run, ret, items, results, own, calls, arg, res, io>>

\* The steps of research() between its file requests.
ResearchSteps ==
    \/ ResearchQueries
    \/ ResearchQueriesLLMFails
    \/ ResearchSearch
    \/ ResearchFetch
    \/ ResearchFinish
    \/ ResearchSynthesisLLMFails
    \/ ResearchReturn

NextResearch == ResearchSteps \/ Reading(1) \/ Writing(1)

SpecResearch == InitResearch /\ [][NextResearch]_vars

\* The raw results of the searches, in query order then result order.
Raw == flatten(run.searchResults)

\* The place of the first raw result with this URL.
firstWith(url) == Min({i \in DOMAIN Raw : Raw[i].url = url})

\* C6: the sources fetchSources returns hold no URL twice; each is the first raw result
\* with its URL (title, snippet and originating query), and they stand in the order of
\* those first results.
C6_DedupFirstSeen ==
    pc \in {"synth", "save", "done"} =>
        /\ \A i, j \in DOMAIN run.sources :
               i < j => /\ run.sources[i].url # run.sources[j].url
                        /\ firstWith(run.sources[i].url) < firstWith(run.sources[j].url)
        /\ \A i \in DOMAIN run.sources :
               run.sources[i] = Raw[firstWith(run.sources[i].url)]

\* C6, reached: two queries returned one URL under different titles, and it was kept once.
C6_Witness ==
    /\ pc = "synth"
    /\ \E i, j \in DOMAIN Raw :
           /\ Raw[i].url = Raw[j].url
           /\ Raw[i].query # Raw[j].query
           /\ Raw[i].title # Raw[j].title
           /\ \E k \in DOMAIN run.sources : run.sources[k].url = Raw[i].url
    /\ Len(run.sources) >= 2

\* C7: for depth quick / standard / deep at most 1 / 3 / 5 queries are issued and at most
\* 2 / 5 / 10 sources reach synthesis.
C7_DepthCaps ==
    /\ arg.depth = "quick" =>
           Len(run.queries) <= 1 /\ Len(run.searchResults) <= 1 /\ Len(run.sources) <= 2
    /\ arg.depth = "standard" =>
           Len(run.queries) <= 3 /\ Len(run.searchResults) <= 3 /\ Len(run.sources) <= 5
    /\ arg.depth = "deep" =>
           Len(run.queries) <= 5 /\ Len(run.searchResults) <= 5 /\ Len(run.sources) <= 10

\* C7, reached: a deep run whose reply held more than five lines and whose searches
\* returned more than ten distinct URLs ends with five queries and ten sources.
C7_Witness ==
    /\ pc = "done"
    /\ arg.depth = "deep"
    /\ Len(trimmedLines(run.response)) > 5
    /\ Cardinality({Raw[i].url : i \in DOMAIN Raw}) > 10
    /\ Len(run.queries) = 5
    /\ Len(ret.sources) = 10

-----------------------------------------------------------------------------
(* Weekly Review Generator *)

Digits == {"0", "1", "2", "3", "4", "5", "6", "7", "8", "9"}

\* (text.match(/a|b/g) || []).length, a and b emoji, none of which another starts with
countOf(text, emoji) ==
    Cardinality({k \in 0..(Len(text) - 1) : \E e \in emoji : startsWith(text, e, k)})

\* text.match(/<prefix>[^<stop>]+/g) || []: the matches from offset i on, left to right,
\* none overlapping
RECURSIVE matchRuns(_, _, _, _)
matchRuns(text, prefix, stop, i) ==
    IF i + Len(prefix) >= Len(text) THEN <<>>
    ELSE IF startsWith(text, prefix, i) /\ text[i + Len(prefix) + 1] \notin stop
         THEN LET ends == {e \in (i + Len(prefix) + 1)..(Len(text) - 1) : text[e + 1] \in stop}
                  e == IF ends = {} THEN Len(text) ELSE Min(ends)
              IN  <<slice(text, i, e)>> \o matchRuns(text, prefix, stop, e)
         ELSE LET next == indexOf(text, prefix, i + 1)
              IN  IF next = -1 THEN <<>> ELSE matchRuns(text, prefix, stop, next)

\* \s*: the first offset from j on that holds no whitespace
skipSpace(text, j) == Min({k \in j..Len(text) : k = Len(text) \/ text[k + 1] \notin WhiteSpace})

StatusEmoji == {<<"{D83D}", "{DFE2}">>, <<"{D83D}", "{DFE1}">>, <<"{2705}">>, <<"{D83D}",
    "{DFE0}">>, <<"{D83D}", "{DD35}">>, <<"{26AA}">>}

\* One match of /\[([^\]]+)\]\([^)]+\)\s*\|\s*(status emoji)/ at offset i: its end, or -1
projectMatchAt(text, i) ==
    LET closeB == indexOf(text, <<"]">>, i + 1)
        closeP == indexOf(text, <<")">>, closeB + 2)
        bar == skipSpace(text, closeP + 1)
        status == skipSpace(text, bar + 1)
    IN  IF /\ text[i + 1] = "["
           /\ closeB > i + 1
           /\ closeB + 1 < Len(text) /\ text[closeB + 2] = "("
           /\ closeP > closeB + 2
           /\ bar < Len(text) /\ text[bar + 1] = "|"
           /\ \E e \in StatusEmoji : startsWith(text, e, status)
        THEN LET e == CHOOSE e \in StatusEmoji : startsWith(text, e, status)
             IN  [end |-> status + Len(e), name |-> slice(text, i + 1, closeB), status |-> e]
        ELSE [end |-> -1, name |-> <<>>, status |-> <<>>]

\* projects.matchAll(...): name and status of every match from offset i on
RECURSIVE projectMatches(_, _)
projectMatches(text, i) ==
    IF i >= Len(text) THEN <<>>
    ELSE LET m == projectMatchAt(text, i)
         IN  IF m.end # -1
             THEN <<[name |-> m.name, status |-> m.status]>> \o projectMatches(text, m.end)
             ELSE projectMatches(text, i + 1)

\* /^\d{4}-\d{2}-\d{2}:/m matches at offset i
datePrefixAt(text, i) ==
    /\ i = 0 \/ text[i] \in LineTerminators
    /\ i + 11 <= Len(text)
    /\ \A k \in {1, 2, 3, 4, 6, 7, 9, 10} : text[i + k] \in Digits
    /\ text[i + 5] = "-" /\ text[i + 8] = "-" /\ text[i + 11] = ":"

noData ==
    [projects |-> [active |-> 0, completed |-> 0, blocked |-> 0, items |-> <<>>],
     tasks |-> [completed |-> 0, pending |-> 0, items |-> <<>>],
     research |-> [topics |-> 0, items |-> <<>>],
     content |-> [pieces |-> 0, items |-> <<>>],
     clients |-> [activities |-> 0, items |-> <<>>]]

\* gatherData, lines 89-100: PROJECTS.md
projectsData(text) ==
    [active |-> countOf(text, {<<"{D83D}", "{DFE2}">>, <<"{D83D}", "{DFE1}">>}),
     completed |-> countOf(text, {<<"{2705}">>}),
     blocked |-> countOf(text, {<<"{D83D}", "{DFE0}">>}),
     items |-> projectMatches(text, 0)]

\* gatherData, lines 103-111: CAPTURE.md
tasksData(text) ==
    LET completedTasks == matchRuns(text, Checked \o <<" ">>, LineTerminators, 0)
        pendingTasks == matchRuns(text, Unchecked \o <<" ">>, LineTerminators, 0)
    IN  [completed |-> Len(completedTasks),
         pending |-> Len(pendingTasks),
         items |-> [i \in DOMAIN completedTasks |->
                       replace(completedTasks[i], Checked \o <<" ">>, <<>>)]]

\* gatherData, lines 114-119: RESEARCH.md
researchData(text) ==
    LET topics == matchRuns(text, <<"#", "#", " ">>, {"#", "\n"}, 0)
    IN  [topics |-> Len(SelectSeq(topics, LAMBDA t : ~includes(t, <<"T", "o", " ", "R", "e", "s",
        "e", "a", "r", "c", "h">>))),
         items |-> [i \in DOMAIN first(topics, 5) |-> replace(topics[i], <<"#", "#", " ">>, <<>>)]]

\* gatherData, lines 122-127: CONTENT.md
contentData(text) ==
    LET pieces == matchRuns(text, <<"#", "#", "#", " ">>, {"#", "\n"}, 0)
    IN  [pieces |-> Len(pieces),
         items |-> [i \in DOMAIN first(pieces, 5) |-> replace(pieces[i], <<"#", "#", "#",
             " ">>, <<>>)]]

\* gatherData, lines 130-134: CLIENTS.md
clientsData(text) ==
    [activities |-> Cardinality({i \in 0..Len(text) : datePrefixAt(text, i)}),
     items |-> <<>>]

gatherDataStopsAtFirstFailure(files) ==
    [projects |-> IF files[PROJECTS].exists
                  THEN projectsData(files[PROJECTS].text) ELSE noData.projects,
     tasks |-> IF \A f \in {PROJECTS, CAPTURE} : files[f].exists
               THEN tasksData(files[CAPTURE].text) ELSE noData.tasks,
     research |-> IF \A f \in {PROJECTS, CAPTURE, RESEARCH} : files[f].exists
                  THEN researchData(files[RESEARCH].text) ELSE noData.research,
     content |-> IF \A f \in {PROJECTS, CAPTURE, RESEARCH, CONTENT} : files[f].exists
                 THEN contentData(files[CONTENT].text) ELSE noData.content,
     clients |-> IF \A f \in {PROJECTS, CAPTURE, RESEARCH, CONTENT, CLIENTS} : files[f].exists
                 THEN clientsData(files[CLIENTS].text) ELSE noData.clients]

\* gatherData(): each file in a try block of its own
gatherData(files) ==
    [projects |-> IF files[PROJECTS].exists
                  THEN projectsData(files[PROJECTS].text) ELSE noData.projects,
     tasks |-> IF files[CAPTURE].exists
               THEN tasksData(files[CAPTURE].text) ELSE noData.tasks,
     research |-> IF files[RESEARCH].exists
                  THEN researchData(files[RESEARCH].text) ELSE noData.research,
     content |-> IF files[CONTENT].exists
                 THEN contentData(files[CONTENT].text) ELSE noData.content,
     clients |-> IF files[CLIENTS].exists
                 THEN clientsData(files[CLIENTS].text) ELSE noData.clients]

\* items.length > 0 ? items.map(t => `- ${t}`).join('\n') : none
bulletList(list, none) ==
    IF Len(list) > 0 THEN join([i \in DOMAIN list |-> <<"-", " ">> \o list[i]]) ELSE none

\* formatReview(weekStart, weekEnd, data, summary), the two dates and the time of
\* generation as the run's clock renders them
formatReview(startStr, endStr, data, summary, generatedAt) ==
    <<"#", " ", "W", "e", "e", "k", "l", "y", " ", "R", "e", "v", "i", "e", "w", ":",
        " ">> \o startStr \o <<" ", "-", " ">> \o endStr \o <<"\n", "\n">> \o summary
        \o <<"\n", "\n", "-", "-", "-", "\n", "\n", "#", "#", " ", "{D83D}", "{DCCA}", " ", "B",
            "y", " ", "t", "h", "e", " ", "N", "u", "m", "b", "e", "r", "s", "\n", "\n", "|", " ",
            "M", "e", "t", "r", "i", "c", " ", "|", " ", "C", "o", "u", "n", "t", " ", "|", "\n",
            "|", "-", "-", "-", "-", "-", "-", "-", "-", "|", "-", "-", "-", "-", "-", "-", "-",
            "|", "\n">>
        \o <<"|", " ", "A", "c", "t", "i", "v", "e", " ", "P", "r", "o", "j", "e", "c", "t", "s",
            " ", "|", " ">> \o toString(data.projects.active) \o <<" ", "|", "\n">>
        \o <<"|", " ", "C", "o", "m", "p", "l", "e", "t", "e", "d", " ", "P", "r", "o", "j", "e",
            "c", "t", "s", " ", "|", " ">> \o toString(data.projects.completed) \o <<" ", "|",
            "\n">>
        \o <<"|", " ", "T", "a", "s", "k", "s", " ", "C", "o", "m", "p", "l", "e", "t", "e", "d",
            " ", "|", " ">> \o toString(data.tasks.completed) \o <<" ", "|", "\n">>
        \o <<"|", " ", "T", "a", "s", "k", "s", " ", "P", "e", "n", "d", "i", "n", "g", " ", "|",
            " ">> \o toString(data.tasks.pending) \o <<" ", "|", "\n">>
        \o <<"|", " ", "R", "e", "s", "e", "a", "r", "c", "h", " ", "T", "o", "p", "i", "c", "s",
            " ", "|", " ">> \o toString(data.research.topics) \o <<" ", "|", "\n">>
        \o <<"|", " ", "C", "o", "n", "t", "e", "n", "t", " ", "P", "i", "e", "c", "e", "s", " ",
            "|", " ">> \o toString(data.content.pieces) \o <<" ", "|", "\n">>
        \o <<"|", " ", "C", "l", "i", "e", "n", "t", " ", "A", "c", "t", "i", "v", "i", "t", "i",
            "e", "s", " ", "|", " ">> \o toString(data.clients.activities) \o <<" ", "|", "\n">>
        \o <<"\n", "#", "#", " ", "{2705}", " ", "C", "o", "m", "p", "l", "e", "t", "e", "d", " ",
            "T", "a", "s", "k", "s", "\n">> \o bulletList(data.tasks.items, <<"-", " ", "(", "n",
            "o", "n", "e", " ", "r", "e", "c", "o", "r", "d", "e", "d", ")">>)
        \o <<"\n", "\n", "#", "#", " ", "{D83D}", "{DD2C}", " ", "R", "e", "s", "e", "a", "r",
            "c", "h", " ", "D", "o", "n", "e", "\n">> \o bulletList(data.research.items, <<"-",
            " ", "(", "n", "o", "n", "e", " ", "t", "h", "i", "s", " ", "w", "e", "e", "k", ")">>)
        \o <<"\n", "\n", "#", "#", " ", "{D83D}", "{DCDD}", " ", "C", "o", "n", "t", "e", "n",
            "t", " ", "C", "r", "e", "a", "t", "e", "d",
            "\n">> \o bulletList(data.content.items, <<"-", " ", "(", "n", "o", "n", "e", " ",
            "t", "h", "i", "s", " ", "w", "e", "e", "k", ")">>)
        \o <<"\n", "\n", "-", "-", "-", "\n", "\n", "*", "G", "e", "n", "e", "r", "a", "t", "e",
            "d", ":", " ">> \o generatedAt \o <<"*", "\n">>

-----------------------------------------------------------------------------
(* generate(): one invocation, step by step *)

\* The clock of the run: the week's Monday, today, and now.
weekStartStr == <<"O", "c", "t", " ", "2", "6">>
weekEndStr == <<"O", "c", "t", " ", "3", "0", ",", " ", "2", "0", "2", "6">>
nowISO == <<"2", "0", "2", "6", "-", "1", "0", "-", "3", "0", "T", "1", "9", ":", "0", "0", ":",
    "0", "0", ".", "0", "0", "0", "Z">>

\* What each tracker file may hold when it can be read.
Samples(f) ==
    CASE f = PROJECTS -> {<<"|", " ", "[", "P", "]", "(", "p", ".", "m", "d", ")", " ", "|", " ",
        "{D83D}", "{DFE2}", " ", "|", "\n", "|", " ", "[", "Q", "]", "(", "q", ")", "|", "{2705}",
        "\n", "{D83D}", "{DFE0}", " ", "{D83D}", "{DFE1}", "\n">>, <<"#", " ", "P", "r", "o", "j",
        "e", "c", "t", "s", "\n">>}
      [] f = CAPTURE -> {<<"-", " ", "[", "x", "]", " ", "d", "o", "n", "e", "\n", "-", " ", "[",
          " ", "]", " ", "t", "o", "d", "o", "\n", " ", "-", " ", "[", "x", "]", " ", "t", "w",
          "o">>, <<"#", "#", " ", "I", "n", "b", "o", "x", "\n", "\n", "-", " ", "[", " ", "]",
          " ", "a", "\n">>}
      [] f = RESEARCH -> {<<"#", "#", " ", "T", "o", " ", "R", "e", "s", "e", "a", "r", "c", "h",
          "\n", "-", " ", "[", " ", "]", " ", "x", "\n", "#", "#", " ", "a", "i", "\n", "\n", "s",
          "\n", "\n", "#", "#", "#", " ", "S", "o", "u", "r", "c", "e", "s", "\n", "1", ".", " ",
          "[", "T", "]", "(", "u", ")", "\n">>}
      [] f = CONTENT -> {<<"#", "#", " ", "D", "r", "a", "f", "t", "s", "\n", "\n", "#", "#", "#",
          " ", "t", "\n", "\n", ">", " ", "T", "y", "p", "e", ":", " ", "b", "l", "o", "g", "\n">>}
      [] f = CLIENTS -> {<<"#", "#", " ", "N", "o", "t", "e", "s", "\n", "2", "0", "2", "6", "-",
          "1", "0", "-", "3", "0", ":", " ", "c", "a", "l", "l", "\n", "-", " ", "2", "0", "2",
          "6", "-", "1", "0", "-", "2", "9", ":", " ", "n", "o", "t", "e", "\n">>}
      [] f = WEEKLY -> {<<"#", " ", "W", "e", "e", "k", "l", "y", " ", "R", "e", "v", "i", "e",
          "w", "s", "\n", "\n", "-", "-", "-", "\n", "\n", "o", "l", "d", "\n">>, <<"#", " ", "W",
          "e", "e", "k", "l", "y", " ", "R", "e", "v", "i", "e", "w", "s", "\n">>}

\* What the model may answer when asked for the summary.
SummaryReplies == {<<"#", "#", " ", "S", "u", "m", "m", "a", "r", "y", "\n", "F", "i", "n", "e",
    ".">>}

\* The files gatherData reads, in the order it reads them.
TrackerOrder == <<PROJECTS, CAPTURE, RESEARCH, CONTENT, CLIENTS>>

Trackers == {TrackerOrder[k] : k \in DOMAIN TrackerOrder}

\* The local variables of generate(): what gatherData has read so far, the data, the
\* summary.
generateLocals == [seen |-> <<>>, data |-> noData, summary |-> <<>>]

\* What gatherData has read, by file.
asFiles(seen) ==
    [f \in Trackers |-> seen[CHOOSE k \in DOMAIN TrackerOrder : TrackerOrder[k] = f]]

\* The call saveReview makes of the review.
saveReviewCall(review) ==
    [op |-> "saveReview", file |-> WEEKLY, section |-> Divider, content |-> review]

InitReview ==
    /\ io = NoCalls
    /\ fs \in {files \in [FileNames -> UNION {{NoFile} \cup {File(t) : t \in Samples(f)} : f \in FileNames}] :
                  \A f \in FileNames : files[f].exists => files[f].text \in Samples(f)}
    /\ fs0 = fs
    /\ run = generateLocals
    /\ pc = "start"
    /\ ret = <<>>
    /\ items = <<>>
    /\ results = <<>>
    /\ own = <<>>
    /\ calls = <<>>
    /\ arg = <<>>
    /\ res = <<>>

\* generate(), line 49: gatherData calls readFile for PROJECTS.md (line 90)
ReviewGather ==
    /\ pc = "start"
    /\ io' = [io EXCEPT ![1] = begun(readFile(TrackerOrder[1]), fs[TrackerOrder[1]])]
    /\ pc' = "gather"
    /\ UNCHANGED <<fs, fs0, run, ret, items, results, own, calls, arg, res>>

\* gatherData, lines 90-134: a readFile has settled, and the next one is called (lines
\* 104, 115, 123, 131); after the last, the data
ReviewGatherNext ==
    /\ pc = "gather"
    /\ io[1].at \in {"done", "raised"}
    /\ LET seen == Append(run.seen, io[1].read)
       IN  IF Len(seen) < Len(TrackerOrder)
           THEN LET next == TrackerOrder[Len(seen) + 1]
                IN  /\ run' = [run EXCEPT !.seen = seen]
                    /\ io' = [io EXCEPT ![1] = begun(readFile(next), fs[next])]
                    /\ pc' = "gather"
           ELSE /\ run' = [run EXCEPT !.seen = seen, !.data = gatherData(asFiles(seen))]
                /\ io' = [io EXCEPT ![1] = Idle]
                /\ pc' = "summary"
    /\ UNCHANGED <<fs, fs0, ret, items, results, own, calls, arg, res>>

\* generate(), lines 60-63 once generateSummary has resolved: formatReview, and saveReview
\* calls readFile (line 219)
summarized(summary) ==
    LET review == formatReview(weekStartStr, weekEndStr, run.data, summary, nowISO)
    IN  /\ run' = [run EXCEPT !.summary = summary]
        /\ io' = [io EXCEPT ![1] = begun(saveReviewCall(review), fs[WEEKLY])]
        /\ pc' = "save"

\* generate(), lines 57-63: generateSummary, formatReview, and the save begun
ReviewFinish ==
    /\ pc = "summary"
    /\ \E summary \in SummaryReplies : summarized(summary)
    /\ UNCHANGED <<fs, fs0, ret, items, results, own, calls, arg, res>>

\* generate(), lines 63-67: saveReview has written the archive (line 238), and the value
\* is returned
ReviewReturn ==
    /\ pc = "save"
    /\ io[1].at = "done"
    /\ ret' = [data |-> run.data, summary |-> run.summary, review |-> io[1].op.content]
    /\ pc' = "done"
    /\ io' = [io EXCEPT ![1] = Idle]
    /\ UNCHANGED <<fs, fs0, run, items, results, own, calls, arg, res>>

\* generate(), line 57: callLLM raises, and so does generate()
ReviewSummaryLLMFails ==
    /\ pc = "summary"
    /\ pc' = "raised"
    /\ UNCHANGED <<fs, fs0, run, ret, items, results, own, calls, arg, res, io>>

\* The steps of generate() between its file requests.
ReviewSteps ==
    \/ ReviewGather
    \/ ReviewGatherNext
    \/ ReviewFinish
    \/ ReviewSummaryLLMFails
    \/ ReviewReturn

NextReview == ReviewSteps \/ Reading(1) \/ Writing(1)

SpecReview == InitReview /\ [][NextReview]_vars

\* The files with every unreadable tracker replaced by a readable one.
AllReadable(files) ==
    [f \in FileNames |->
        IF files[f].exists \/ f \notin Trackers THEN files[f]
        ELSE File(CHOOSE t \in Samples(f) : TRUE)]

\* The part of the gathered data that comes from tracker f.
MetricsOf(data, f) ==
    CASE f = PROJECTS -> data.projects
      [] f = CAPTURE -> data.tasks
      [] f = RESEARCH -> data.research
      [] f = CONTENT -> data.content
      [] f = CLIENTS -> data.clients

\* C8: whatever trackers are unreadable, gatherData completes; the metrics of an unreadable
\* tracker are zero with an empty item list, those of a readable tracker are what they
\* are when every tracker can be read, and generate() renders and saves the review unless
\* the model's call fails.
C8_UnreadableTolerated ==
    /\ pc \notin {"start", "gather"} =>
           \A f \in Trackers :
               /\ ~fs0[f].exists => MetricsOf(run.data, f) = MetricsOf(noData, f)
               /\ fs0[f].exists =>
                      MetricsOf(run.data, f) = MetricsOf(gatherData(AllReadable(fs0)), f)
    /\ pc = "done" =>
           /\ ret.review = formatReview(weekStartStr, weekEndStr, ret.data, ret.summary, nowISO)
           /\ ret.data = run.data
           /\ fs[WEEKLY].exists /\ includes(fs[WEEKLY].text, ret.review)

\* C8, reached: a finished run with an unreadable tracker before the capture file, whose
\* counts are in the saved review.
C8_Witness ==
    /\ pc = "done"
    /\ ~fs0[PROJECTS].exists /\ ~fs0[CONTENT].exists
    /\ fs0[CAPTURE].exists /\ fs0[RESEARCH].exists /\ fs0[CLIENTS].exists
    /\ ret.data.tasks.completed = 2
    /\ ret.data.research.topics > 0
    /\ ret.data.clients.activities = 1
    /\ includes(fs[WEEKLY].text, <<"|", " ", "T", "a", "s", "k", "s", " ", "C", "o", "m", "p",
        "l", "e", "t", "e", "d", " ", "|", " ", "2", " ", "|">>)

-----------------------------------------------------------------------------
(* LLM Client: callLLM, the same in the four agents *)

\* What a call can come to: a returned text or a raised error.
Return(text) == [raised |-> FALSE, text |-> text, message |-> ""]
Raise(message) == [raised |-> TRUE, text |-> <<>>, message |-> message]

\* Texts a model may produce.
LLMTexts == {<<"t", "a", "s", "k">>, <<"q", "1", "\n", "q", "2">>}

\* The body of an HTTP response: not JSON, the JSON value null, or a JSON object with
\* or without a `response` member.
Bodies ==
    {[json |-> "invalid", has |-> FALSE, response |-> <<>>],
     [json |-> "null", has |-> FALSE, response |-> <<>>],
     [json |-> "object", has |-> FALSE, response |-> <<>>]}
    \cup {[json |-> "object", has |-> TRUE, response |-> t] : t \in LLMTexts \cup {<<>>}}

\* What fetch() can come to: no connection, or a response with a status and a body.
Exchanges == [connected : BOOLEAN, status : {200, 404, 500}, body : Bodies]

Providers == {"ollama", "openai"}

callLLMNeverRaises(provider, exchange) ==
    IF exchange.connected /\ exchange.body.has
    THEN Return(exchange.body.response)
    ELSE Return(<<>>)

\* callLLM(prompt): fetch raises without a connection, response.json() raises on a body
\* that is not JSON, data.response raises on null; the status is never looked at.
callLLM(provider, exchange) ==
    IF provider # "ollama" THEN Raise("Unsupported LLM provider")
    ELSE IF ~exchange.connected THEN Raise("fetch failed")
    ELSE IF exchange.body.json = "invalid" THEN Raise("Unexpected token in JSON")
    ELSE IF exchange.body.json = "null" THEN Raise("Cannot read properties of null")
    ELSE IF exchange.body.has /\ exchange.body.response # <<>>
         THEN Return(exchange.body.response)
         ELSE Return(<<>>)

-----------------------------------------------------------------------------
(* Content Writer: write() *)

\* An optional argument: undefined, or a given value.
undefined == [given |-> FALSE, value |-> <<>>]
Given(v) == [given |-> TRUE, value |-> v]

\* A destructuring default: it applies to undefined only.
orDefault(option, default) == IF option.given THEN option.value ELSE default

\* formatOutput(topic, content, { type, tone })
formatOutput(topic, content, type, tone) ==
    <<"#", "#", "#", " ">> \o topic \o <<"\n", "\n", ">", " ", "T", "y", "p", "e", ":",
        " ">> \o type \o <<" ", "|", " ", "T", "o", "n", "e", ":", " ">> \o tone
        \o <<" ", "|", " ", "C", "r", "e", "a", "t", "e", "d", ":", " ">> \o date \o <<"\n",
            "\n">> \o content \o <<"\n", "\n", "-", "-", "-", "\n">>

\* The JSON value null.
null == [given |-> FALSE, value |-> <<"n", "u", "l", "l">>]

\* write(topic, options): the returned value { topic, type, content, output, savedAt }
writeResult(topic, options, content) ==
    LET type == orDefault(options.type, <<"b", "l", "o", "g">>)
        tone == orDefault(options.tone, <<"p", "r", "o", "f", "e", "s", "s", "i", "o", "n", "a",
            "l">>)
    IN  [topic |-> topic, type |-> type, content |-> content,
         output |-> formatOutput(topic, content, type, tone),
         savedAt |-> IF options.save THEN Given(nowISO) ELSE null]

\* The call saveToContent makes of the formatted draft.
saveToContentCall(output) ==
    [op |-> "saveToContent", file |-> CONTENT, section |-> Drafts, content |-> output]

\* write(), lines 65-71: getRelevantResearch calls readFile (line 102); what it finds
\* goes into the prompt
WriteStart ==
    /\ pc = "start"
    /\ io' = [io EXCEPT ![1] = begun(readFile(RESEARCH), fs[RESEARCH])]
    /\ pc' = "relevant"
    /\ UNCHANGED <<fs, fs0, run, ret, items, results, own, calls, arg, res>>

\* write(), lines 84-98 once generate has resolved: formatOutput made the result, and
\* with save saveToContent calls readFile (line 210); without it the value is returned
generated(result, save) ==
    IF save
    THEN /\ run' = result
         /\ io' = [io EXCEPT ![1] = begun(saveToContentCall(result.output), fs[CONTENT])]
         /\ pc' = "save"
         /\ UNCHANGED ret
    ELSE /\ ret' = result
         /\ io' = [io EXCEPT ![1] = Idle]
         /\ pc' = "done"
         /\ UNCHANGED run

\* write(), lines 87-98: saveToContent has written the file (line 230), and the value is
\* returned
WriteReturn ==
    /\ pc = "save"
    /\ io[1].at = "done"
    /\ ret' = run
    /\ pc' = "done"
    /\ io' = [io EXCEPT ![1] = Idle]
    /\ UNCHANGED <<fs, fs0, run, items, results, own, calls, arg, res>>

-----------------------------------------------------------------------------
(* The four agents, each with the HTTP exchanges of its calls to the model *)

Agents == {"process", "research", "write", "generate"}

InitLLM ==
    /\ io = NoCalls
    /\ arg \in [agent : Agents, provider : Providers, topic : Topics, depth : {"quick"},
                apiKey : {FALSE}, save : {TRUE}]
    /\ fs = [NoFiles EXCEPT ![CAPTURE] = File(<<"-", " ", "[", " ", "]", " ", "a", "\n", "-", " ",
        "[", " ", "]", " ", "b">>)]
    /\ fs0 = fs
    /\ run = CASE arg.agent = "research" ->
                      [response |-> <<>>, queries |-> <<>>, searchResults |-> <<>>,
                       sources |-> <<>>, synthesis |-> <<>>]
               [] arg.agent = "generate" -> generateLocals
               [] OTHER -> <<>>
    /\ pc = "start"
    /\ ret = IF arg.agent = "process" THEN [processed |-> -1, items |-> <<>>] ELSE <<>>
    /\ items = <<>>
    /\ results = <<>>
    /\ own = <<>>
    /\ calls = <<>>
    /\ res = <<>>

\* One call of callLLM, as the history keeps it.
LLMCall(exchange) == [exchange |-> exchange, outcome |-> callLLM(arg.provider, exchange)]

\* process(), lines 55-64, with processItem and categorize: the try / catch around one
\* item, up to the readFile of addToFile (line 197)
LLMProcessItem ==
    /\ arg.agent = "process"
    /\ pc = "loop"
    /\ \E exchange \in Exchanges :
         LET item == items[Len(results) + 1]
             response == callLLM(arg.provider, exchange)
         IN  /\ calls' = Append(calls, LLMCall(exchange))
             /\ IF response.raised
                THEN /\ results' = Append(results, [item |-> item, category |-> <<>>,
                                                    error |-> response.message])
                     /\ pc' = nextPc(results')
                     /\ UNCHANGED <<run, io>>
                ELSE routed(item, categorize(response.text))
    /\ UNCHANGED <<fs, fs0, items, own, ret, arg, res>>

\* research(), line 55: generateSearchQueries, whose callLLM (line 109) nothing catches
LLMResearchQueries ==
    /\ arg.agent = "research"
    /\ pc = "start"
    /\ \E exchange \in Exchanges :
         LET response == callLLM(arg.provider, exchange)
         IN  /\ calls' = Append(calls, LLMCall(exchange))
             /\ IF response.raised
                THEN pc' = "raised" /\ UNCHANGED run
                ELSE /\ run' = [run EXCEPT !.response = response.text,
                                           !.queries = generateSearchQueries(arg.topic,
                                               searchCount(arg.depth), response.text)]
                     /\ pc' = IF run'.queries = <<>> THEN "fetch" ELSE "search"
    /\ UNCHANGED <<fs, fs0, ret, items, results, own, arg, res, io>>

\* research(), lines 76-85: synthesize, whose callLLM (line 210) nothing catches, then
\* formatReport, and the save begun
LLMResearchFinish ==
    /\ arg.agent = "research"
    /\ pc = "synth"
    /\ \E exchange \in Exchanges :
         LET synthesis == callLLM(arg.provider, exchange)
         IN  /\ calls' = Append(calls, LLMCall(exchange))
             /\ IF synthesis.raised
                THEN pc' = "raised" /\ UNCHANGED <<run, ret, io>>
                ELSE synthesized(synthesis.text)
    /\ UNCHANGED <<fs, fs0, items, results, own, arg, res>>

\* write(), lines 73-87: generate, whose callLLM (line 189) nothing catches, then
\* formatOutput, and the save begun
LLMWrite ==
    /\ arg.agent = "write"
    /\ pc = "relevant"
    /\ io[1].at \in {"done", "raised"}
    /\ \E exchange \in Exchanges :
         LET content == callLLM(arg.provider, exchange)
             result == writeResult(arg.topic,
                                   [type |-> undefined, tone |-> undefined, save |-> arg.save],
                                   content.text)
         IN  /\ calls' = Append(calls, LLMCall(exchange))
             /\ IF content.raised
                THEN /\ pc' = "raised"
                     /\ io' = [io EXCEPT ![1] = Idle]
                     /\ UNCHANGED <<run, ret>>
                ELSE generated(result, arg.save)
    /\ UNCHANGED <<fs, fs0, items, results, own, arg, res>>

\* generate(), lines 57-63: generateSummary, whose callLLM (line 174) nothing catches,
\* then formatReview, and the save begun
LLMReviewFinish ==
    /\ arg.agent = "generate"
    /\ pc = "summary"
    /\ \E exchange \in Exchanges :
         LET summary == callLLM(arg.provider, exchange)
         IN  /\ calls' = Append(calls, LLMCall(exchange))
             /\ IF summary.raised
                THEN pc' = "raised" /\ UNCHANGED <<run, io>>
                ELSE summarized(summary.text)
    /\ UNCHANGED <<fs, fs0, ret, items, results, own, arg, res>>

NextLLM ==
    \/ arg.agent = "process" /\ ProcessStart
    \/ arg.agent = "process" /\ ProcessScan
    \/ LLMProcessItem
    \/ arg.agent = "process" /\ ProcessItemRouted
    \/ arg.agent = "process" /\ ProcessMark
    \/ arg.agent = "process" /\ ProcessReturn
    \/ LLMResearchQueries
    \/ arg.agent = "research" /\ ResearchSearch
    \/ arg.agent = "research" /\ ResearchFetch
    \/ LLMResearchFinish
    \/ arg.agent = "research" /\ ResearchReturn
    \/ arg.agent = "write" /\ WriteStart
    \/ LLMWrite
    \/ arg.agent = "write" /\ WriteReturn
    \/ arg.agent = "generate" /\ ReviewGather
    \/ arg.agent = "generate" /\ ReviewGatherNext
    \/ LLMReviewFinish
    \/ arg.agent = "generate" /\ ReviewReturn
    \/ Reading(1)
    \/ Writing(1)

SpecLLM == InitLLM /\ [][NextLLM]_vars

\* The three kinds of failure of a call: no connection, a status outside 200..299, a
\* body that is not JSON.
NetworkError(exchange) == ~exchange.connected
Non2xx(exchange) == exchange.connected /\ exchange.status \notin 200..299
MalformedBody(exchange) == exchange.connected /\ exchange.body.json = "invalid"
FailedExchange(exchange) ==
    NetworkError(exchange) \/ Non2xx(exchange) \/ MalformedBody(exchange)

\* C11: a call that meets a network error, a non-2xx response or a malformed body raises
\* and returns no text; process() records the raise as the item's error and goes on to
\* the end of the batch, while research(), write() and generate() end with the raise,
\* having written no file.
C11_LLMFailureRaises ==
    /\ \A k \in DOMAIN calls :
           FailedExchange(calls[k].exchange) => calls[k].outcome.raised
    /\ arg.agent = "process" =>
           /\ \A k \in DOMAIN results : calls[k].outcome.raised <=> results[k].error # ""
           /\ pc = "loop" \/ pc = "mark" => Len(calls) = Len(results)
    /\ arg.agent # "process" =>
           /\ pc = "raised" <=> \E k \in DOMAIN calls : calls[k].outcome.raised
           /\ pc = "raised" => fs = fs0 /\ ret = <<>>

-----------------------------------------------------------------------------
(* Two invocations editing one file at the same time *)

\* Each invocation calls readFile, computes the new text from what it read, and hands it
\* to writeFile; the requests of the two calls are served in any order.

\* What an invocation does: addToFile on the capture file (the route of an idea or a
\* reference), capture(), or the save that ends write(), research() or generate().
RaceOps ==
    {[op |-> "addToFile", file |-> CAPTURE, section |-> <<"#", "#", " ", "I", "d", "e", "a",
        "s">>, content |-> <<"-", " ", "{D83D}", "{DCA1}", " ", "x">>],
     [op |-> "addToFile", file |-> CAPTURE, section |-> <<"#", "#", " ", "R", "e", "f", "e", "r",
         "e", "n", "c", "e">>, content |-> <<"-", " ", "y", "y">>],
     [op |-> "capture", file |-> CAPTURE, section |-> Inbox, content |-> <<"n", "e", "w">>]}
    \cup {[op |-> "saveToContent", file |-> CONTENT, section |-> Drafts,
            content |-> formatOutput(topic, <<"d">>, <<"b", "l", "o", "g">>, <<"p", "r", "o", "f",
                "e", "s", "s", "i", "o", "n", "a", "l">>)] :
              topic \in {<<"a", "i">>, <<"m", "l">>}}
    \cup {[op |-> "saveToResearch", file |-> RESEARCH, section |-> Divider,
            content |-> formatReport(topic, <<"x">>, <<>>)] : topic \in {<<"a", "i">>, <<"m",
                "l">>}}
    \cup {[op |-> "saveReview", file |-> WEEKLY, section |-> Divider,
            content |-> formatReview(weekStartStr, weekEndStr, noData, summary, nowISO)] :
              summary \in {<<"S", "1">>, <<"S", "2">>}}

\* What the file of an operation may hold beforehand.
RaceFiles(name) ==
    CASE name = CAPTURE -> {NoFile, File(<<"#", "#", " ", "I", "d", "e", "a", "s",
        "\n">>), File(<<"#", "#", " ", "I", "d", "e", "a", "s", "\n", "-", " ", "a", "\n">>),
                            File(<<"#", "#", " ", "I", "n", "b", "o", "x", "\n", "\n", "#", "#",
                                " ", "I", "d", "e", "a", "s", "\n", "-", " ", "o", "l", "d",
                                "\n">>)}
      [] name = CONTENT -> {NoFile, File(<<"#", "#", " ", "D", "r", "a", "f", "t", "s", "\n">>)}
      [] name = RESEARCH -> {NoFile, File(<<"#", " ", "R", "\n", "\n", "-", "-", "-", "\n", "\n",
          "#", "#", " ", "T", "o", " ", "R", "e", "s", "e", "a", "r", "c", "h", "\n">>)}
      [] name = WEEKLY -> {NoFile, File(<<"#", " ", "W", "e", "e", "k", "l", "y", " ", "R", "e",
          "v", "i", "e", "w", "s", "\n", "\n", "-", "-", "-", "\n", "\n", "o", "l", "d", "\n">>)}

\* The file the two invocations edit.
raced == arg[1].file

InitRace ==
    /\ io = NoCalls
    /\ arg \in {ops \in [Invocations -> RaceOps] : \A p \in Invocations : ops[p].file = ops[1].file}
    /\ \E c \in RaceFiles(arg[1].file) : fs = [NoFiles EXCEPT ![arg[1].file] = c]
    /\ fs0 = fs
    /\ run = <<>>
    /\ pc = "start"
    /\ calls = <<>>
    /\ ret = <<>>
    /\ items = <<>>
    /\ results = <<>>
    /\ own = <<>>
    /\ res = <<>>

\* addToFile line 197, capture line 262, saveToContent line 210, saveToResearch line 237,
\* saveReview line 219: the handler is called and calls readFile
RaceStart(p) ==
    /\ io[p].at = "idle"
    /\ io' = [io EXCEPT ![p] = begun(arg[p], fs[raced])]
    /\ UNCHANGED <<fs, fs0, pc, calls, ret, items, results, own, arg, res, run>>

NextRace == \E p \in Invocations : RaceStart(p) \/ Reading(p) \/ Writing(p)

SpecRace == InitRace /\ [][NextRace]_vars

\* Both calls have resolved.
BothReturned == \A p \in Invocations : io[p].at = "done"

\* The invocation whose write landed last.
lastWriter == CHOOSE p \in Invocations : io[p].seq = Cardinality(Invocations)

\* The text an invocation adds to the file.
fragmentOf(op) ==
    IF op.op = "capture" THEN Unchecked \o <<" ">> \o op.content ELSE op.content

\* Both invocations completed, and the text of one of them is not in the file.
LostUpdate ==
    /\ BothReturned
    /\ \E p \in Invocations : ~includes(fs[raced].text, fragmentOf(arg[p]))

\* C12: when two invocations have edited the same file at the same time, the file holds
\* exactly the text handed to the write that landed last, never a mixture of the two.
C12_LastWriteWins ==
    BothReturned => fs[raced].text = io[lastWriter].out

-----------------------------------------------------------------------------
(* The review archive under successive saveReview calls *)

\* Most saveReview calls in one run.
MaxSaves == 3

\* The archive as it may be found: missing, with the header's divider, with the divider
\* as its last characters, and without any divider.
ArchiveFiles ==
    {NoFile, File(<<"#", " ", "W", "e", "e", "k", "l", "y", " ", "R", "e", "v", "i", "e", "w",
        "s", "\n", "\n", "-", "-", "-", "\n", "\n">>), File(<<"#", " ", "W", "e", "e", "k", "l",
        "y", " ", "R", "e", "v", "i", "e", "w", "s", "\n", "-", "-", "-">>),
     File(<<"#", " ", "W", "e", "e", "k", "l", "y", " ", "R", "e", "v", "i", "e", "w", "s", "\n">>)}

\* The reviews that may be saved: what formatReview renders for a summary.
Reviews ==
    {formatReview(weekStartStr, weekEndStr, noData, summary, nowISO) :
        summary \in {<<"S", "1">>, <<"#", "#", " ", "W", "i", "n", "s", "\n", "-", " ", "w">>}}

InitArchive ==
    /\ io = NoCalls
    /\ \E c \in ArchiveFiles : fs = [NoFiles EXCEPT ![WEEKLY] = c]
    /\ fs0 = fs
    /\ calls = <<>>
    /\ pc = "start"
    /\ run = [p \in Invocations |-> 0]
    /\ ret = <<>>
    /\ items = <<>>
    /\ results = <<>>
    /\ own = <<>>
    /\ arg = <<>>
    /\ res = <<>>

\* saveReview(review, weekStart): readFile called (line 219)
ArchiveSave(p) ==
    \E review \in Reviews : called(p, saveReviewCall(review), MaxSaves)

\* saveReview: writeFile has resolved (line 238), and the call returns
ArchiveSaved(p) ==
    /\ io[p].at = "done"
    /\ calls' = Append(calls, [review |-> io[p].op.content, seen |-> run[p]])
    /\ io' = [io EXCEPT ![p] = Idle]
    /\ UNCHANGED <<fs, fs0, pc, run, ret, items, results, own, arg, res>>

NextArchive ==
    \E p \in Invocations : ArchiveSave(p) \/ Reading(p) \/ Writing(p) \/ ArchiveSaved(p)

SpecArchive == InitArchive /\ [][NextArchive]_vars

\* The blocks, oldest first, are in the text from offset `from` on: the newest whole and
\* first, and each older one whole and further down.
RECURSIVE stacked(_, _, _)
stacked(text, blocks, from) ==
    IF blocks = <<>> THEN TRUE
    ELSE LET newest == blocks[Len(blocks)]
             at == indexOf(text, newest, from)
         IN  /\ at # -1
             /\ stacked(text, SubSeq(blocks, 1, Len(blocks) - 1), at + Len(newest))

\* The reviews saved, oldest first.
saved == [k \in DOMAIN calls |-> calls[k].review]

\* C13: after any sequence of saveReview calls, on an archive that was missing, had a
\* divider or had none, the newest review is above every earlier one and each earlier
\* review is still in the file as one unmodified block below it.
C13_NewestFirst ==
    (calls # <<>> /\ InTurn) => fs[WEEKLY].exists /\ stacked(fs[WEEKLY].text, saved, 0)

\* The same, for an archive that was missing or had a divider to begin with.
C13_NewestFirstWithDivider ==
    (~fs0[WEEKLY].exists \/ includes(fs0[WEEKLY].text, Divider)) /\ calls # <<>> /\ InTurn =>
        fs[WEEKLY].exists /\ stacked(fs[WEEKLY].text, saved, 0)

-----------------------------------------------------------------------------
(* The command line: main() *)

\* args[i], 0-based: a given word, or undefined past the end
argAt(args, i) == IF i + 1 \in DOMAIN args THEN Given(args[i + 1]) ELSE undefined

\* !value, for a word of the command line
falsy(option) == ~option.given \/ option.value = <<>>

\* args.includes(word)
argsInclude(args, word) == \E i \in DOMAIN args : args[i] = word

\* args.indexOf(word), 0-based
argsIndexOf(args, word) ==
    IF argsInclude(args, word) THEN Min({i \in DOMAIN args : args[i] = word}) - 1 ELSE -1

\* main(), lines 31-32
depthOf(args) ==
    IF argsInclude(args, <<"-", "-", "d", "e", "e", "p">>) THEN "deep"
    ELSE IF argsInclude(args, <<"-", "-", "q", "u", "i", "c", "k">>) THEN "quick" ELSE "standard"

flagValueUnguarded(args, flag, default) == argAt(args, argsIndexOf(args, flag) + 1)

\* main(), lines 46-49: the value after the flag, or the default without the flag
flagValue(args, flag, default) ==
    IF argsIndexOf(args, flag) # -1 THEN argAt(args, argsIndexOf(args, flag) + 1)
    ELSE Given(default)

\* What main() decides before it awaits anything: to exit, or to call an agent.
Exit(code) ==
    [exit |-> code, agent |-> "", topic |-> <<>>, depth |-> "", type |-> undefined,
     tone |-> undefined]
Start(agent, topic, depth, type, tone) ==
    [exit |-> -1, agent |-> agent, topic |-> topic, depth |-> depth, type |-> type,
     tone |-> tone]

\* main(), lines 24-108: the switch on the command
dispatch(args) ==
    LET command == argAt(args, 0)
        operand == argAt(args, 1)
    IN  CASE command = Given(<<"r", "e", "s", "e", "a", "r", "c", "h">>) ->
                 IF falsy(operand) THEN Exit(1)
                 ELSE Start("research", operand.value, depthOf(args), undefined, undefined)
          [] command = Given(<<"w", "r", "i", "t", "e">>) ->
                 IF falsy(operand) THEN Exit(1)
                 ELSE Start("write", operand.value, "",
                            flagValue(args, <<"-", "-", "t", "y", "p", "e">>, <<"b", "l", "o",
                                "g">>),
                            flagValue(args, <<"-", "-", "t", "o", "n", "e">>, <<"p", "r", "o",
                                "f", "e", "s", "s", "i", "o", "n", "a", "l">>))
          [] command = Given(<<"c", "a", "p", "t", "u", "r", "e">>) ->
                 IF falsy(operand) THEN Exit(1)
                 ELSE Start("capture", operand.value, "", undefined, undefined)
          [] command = Given(<<"p", "r", "o", "c", "e", "s",
              "s">>) -> Start("process", <<>>, "", undefined, undefined)
          [] command = Given(<<"r", "e", "v", "i", "e",
              "w">>) -> Start("generate", <<>>, "", undefined, undefined)
          [] OTHER -> Exit(0)

\* main(), lines 109-112 and the end of main(): the exit code after the agent's call
exitCodeAlwaysZero(at) == 0

exitCode(at) == IF at = "raised" THEN 1 ELSE 0

\* The command lines tried: a command, an operand or none, and flags.
Commands ==
    {<<"r", "e", "s", "e", "a", "r", "c", "h">>, <<"w", "r", "i", "t", "e">>, <<"c", "a", "p",
        "t", "u", "r", "e">>, <<"p", "r", "o", "c", "e", "s", "s">>, <<"r", "e", "v", "i", "e",
        "w">>, <<"h", "e", "l", "p">>, <<"d", "e", "p", "l", "o", "y">>}
Operands == {<<>>, <<<<>>>>, <<<<"a", "i">>>>}
FlagLists ==
    {<<>>, <<<<"-", "-", "d", "e", "e", "p">>>>, <<<<"-", "-", "q", "u", "i", "c",
        "k">>>>, <<<<"-", "-", "q", "u", "i", "c", "k">>, <<"-", "-", "d", "e", "e", "p">>>>,
     <<<<"-", "-", "t", "y", "p", "e">>, <<"s", "o", "c", "i", "a", "l">>>>, <<<<"-", "-", "t",
         "y", "p", "e">>>>, <<<<"-", "-", "t", "o", "n", "e">>, <<"c", "a", "s", "u", "a", "l">>>>,
     <<<<"-", "-", "t", "y", "p", "e">>, <<"s", "o", "c", "i", "a", "l">>, <<"-", "-", "t", "o",
         "n", "e">>, <<"c", "a", "s", "u", "a", "l">>>>,
     <<<<"-", "-", "t", "o", "n", "e">>, <<"c", "a", "s", "u", "a", "l">>, <<"-", "-", "t", "y",
         "p", "e">>, <<"e", "m", "a", "i", "l">>>>,
     <<<<"-", "-", "t", "o", "n", "e">>, <<"-", "-", "t", "y", "p", "e">>, <<"s", "o", "c", "i",
         "a", "l">>>>}
CommandLines ==
    {<<>>} \cup {<<c>> \o o \o f : c \in Commands, o \in Operands, f \in FlagLists}

InitCLI ==
    /\ io = NoCalls
    /\ arg \in {[argv |-> a, agent |-> "", topic |-> <<>>, depth |-> "", apiKey |-> FALSE,
                 save |-> TRUE, type |-> undefined, tone |-> undefined] : a \in CommandLines}
    /\ fs = [NoFiles EXCEPT ![CAPTURE] = File(<<"-", " ", "[", " ", "]", " ", "a", "\n", "#", "#",
        " ", "I", "n", "b", "o", "x", "\n", "\n", "-", " ", "[", " ", "]", " ", "b", "\n">>)]
    /\ fs0 = fs
    /\ pc = "main"
    /\ run = <<>>
    /\ ret = <<>>
    /\ res = [code |-> -1, after |-> ""]
    /\ calls = <<>>
    /\ items = <<>>
    /\ results = <<>>
    /\ own = <<>>

\* main(), lines 22-108: usage and exit, or the call of the agent's operation
CLIMain ==
    /\ pc = "main"
    /\ LET plan == dispatch(arg.argv)
       IN  IF plan.exit # -1
           THEN /\ pc' = "exited"
                /\ res' = [code |-> plan.exit, after |-> "usage"]
                /\ UNCHANGED <<arg, run, ret, calls>>
           ELSE /\ pc' = "start"
                /\ arg' = [arg EXCEPT !.agent = plan.agent, !.topic = plan.topic,
                                      !.depth = plan.depth, !.type = plan.type,
                                      !.tone = plan.tone]
                /\ run' = CASE plan.agent = "research" ->
                                   [response |-> <<>>, queries |-> <<>>,
                                    searchResults |-> <<>>, sources |-> <<>>,
                                    synthesis |-> <<>>]
                            [] plan.agent = "generate" -> generateLocals
                            [] OTHER -> <<>>
                /\ ret' = IF plan.agent = "process" THEN [processed |-> -1, items |-> <<>>]
                          ELSE <<>>
                /\ calls' = Append(calls, plan)
                /\ UNCHANGED res
    /\ UNCHANGED <<fs, fs0, items, results, own, io>>

\* capture(text): readFile called (line 262)
CLICapture ==
    /\ arg.agent = "capture"
    /\ pc = "start"
    /\ io' = [io EXCEPT ![1] = begun(captureCall(arg.topic), fs[CAPTURE])]
    /\ pc' = "capture"
    /\ UNCHANGED <<fs, fs0, run, ret, res, calls, items, results, own, arg>>

\* capture(text): writeFile has resolved (line 282), and the value is returned
CLICaptureReturn ==
    /\ pc = "capture"
    /\ io[1].at = "done"
    /\ ret' = [text |-> arg.topic]
    /\ pc' = "done"
    /\ io' = [io EXCEPT ![1] = Idle]
    /\ UNCHANGED <<fs, fs0, run, res, calls, items, results, own, arg>>

\* capture(text): writeFile (line 282) raised, and so does capture()
CLICaptureWriteFails ==
    /\ pc = "capture"
    /\ io[1].at = "raised"
    /\ pc' = "raised"
    /\ io' = [io EXCEPT ![1] = Idle]
    /\ UNCHANGED <<fs, fs0, run, ret, res, calls, items, results, own, arg>>

\* write(topic, { type, tone }), lines 73-87: generate has resolved, and the save is
\* begun
CLIWrite ==
    /\ arg.agent = "write"
    /\ pc = "relevant"
    /\ io[1].at \in {"done", "raised"}
    /\ \E content \in SynthesisReplies :
         generated(writeResult(arg.topic,
                               [type |-> arg.type, tone |-> arg.tone, save |-> arg.save],
                               content),
                   arg.save)
    /\ UNCHANGED <<fs, fs0, res, calls, items, results, own, arg>>

\* write(), line 73: callLLM raises, and so does write()
CLIWriteLLMFails ==
    /\ arg.agent = "write"
    /\ pc = "relevant"
    /\ io[1].at \in {"done", "raised"}
    /\ pc' = "raised"
    /\ io' = [io EXCEPT ![1] = Idle]
    /\ UNCHANGED <<fs, fs0, run, ret, res, calls, items, results, own, arg>>

\* main(): the agent's call returned, or raised into the catch of lines 109-112
CLIExit ==
    /\ pc \in {"done", "raised"}
    /\ res' = [code |-> exitCode(pc), after |-> pc]
    /\ pc' = "exited"
    /\ UNCHANGED <<fs, fs0, run, ret, calls, items, results, own, arg, io>>

NextCLI ==
    \/ CLIMain
    \/ CLICapture
    \/ CLICaptureReturn
    \/ CLICaptureWriteFails
    \/ arg.agent = "write" /\ WriteStart
    \/ CLIWrite
    \/ CLIWriteLLMFails
    \/ arg.agent = "write" /\ WriteReturn
    \/ arg.agent = "process" /\ ProcessSteps
    \/ arg.agent = "research" /\ ResearchSteps
    \/ arg.agent = "generate" /\ ReviewSteps
    \/ Reading(1)
    \/ Writing(1)
    \/ arg.agent \in {"capture", "process"} /\ FileOpenFails(1)
    \/ CLIExit

SpecCLI == InitCLI /\ [][NextCLI]_vars

\* The command line names a command that takes an operand, and gives none.
NoOperand == Len(arg.argv) < 2 \/ arg.argv[2] = <<>>
MissingOperandOf(commands) == arg.argv # <<>> /\ arg.argv[1] \in commands /\ NoOperand

\* The exit code is 1 exactly when a command of the set lacks its operand or the agent
\* raised; a missing operand starts no operation and writes no file; at most one
\* operation is started.
ExitCodes(commands) ==
    /\ Len(calls) <= 1
    /\ pc = "exited" =>
           /\ res.code \in {0, 1}
           /\ res.code = 1 <=> (MissingOperandOf(commands) \/ res.after = "raised")
           /\ MissingOperandOf(commands) => calls = <<>> /\ fs = fs0

\* C14 as claimed: the commands that need an operand are research and capture.
C14_ExitCodeClaimed == ExitCodes({<<"r", "e", "s", "e", "a", "r", "c", "h">>, <<"c", "a", "p",
    "t", "u", "r", "e">>})

\* C14: the exit code is 1 exactly when research, write or capture is given without its
\* operand or the dispatched agent raises, and 0 otherwise, help and unknown commands
\* included; a missing operand starts no agent operation and writes no file, and no
\* invocation starts more than one operation.
C14_ExitCode == ExitCodes({<<"r", "e", "s", "e", "a", "r", "c", "h">>, <<"w", "r", "i", "t",
    "e">>, <<"c", "a", "p", "t", "u", "r", "e">>})

\* C14, reached: write without a topic has exited with code 1, no operation started.
C14_Witness ==
    /\ pc = "exited"
    /\ arg.argv = <<<<"w", "r", "i", "t", "e">>>>
    /\ res.code = 1
    /\ calls = <<>>


\* The flag is on the command line with a word after it.
FlagHasValue(flag) ==
    \E i \in DOMAIN arg.argv : arg.argv[i] = flag /\ i + 1 \in DOMAIN arg.argv

\* The word after the first occurrence of the flag.
FlagWord(flag) == arg.argv[Min({i \in DOMAIN arg.argv : arg.argv[i] = flag}) + 1]

\* The value the claim expects the writer to use for a flag.
Expected(flag, default) == IF FlagHasValue(flag) THEN FlagWord(flag) ELSE default

\* The metadata line of a draft.
Metadata(type, tone) ==
    <<">", " ", "T", "y", "p", "e", ":", " ">> \o type \o <<" ", "|", " ", "T", "o", "n", "e",
        ":", " ">> \o tone \o <<" ", "|", " ", "C", "r", "e", "a", "t", "e", "d", ":", " ">> \o date

\* C15: research is called with depth standard unless --quick or --deep is among the
\* arguments; write uses type blog and tone professional when the flag is not given with
\* a value and otherwise exactly the given value, which is also what the metadata line
\* of the saved draft records.
C15_FlagDefaults ==
    /\ \A k \in DOMAIN calls :
           calls[k].agent = "research" =>
               (calls[k].depth = "standard"
                    <=> ~(argsInclude(arg.argv, <<"-", "-", "q", "u", "i", "c",
                        "k">>) \/ argsInclude(arg.argv, <<"-", "-", "d", "e", "e", "p">>)))
    /\ arg.agent = "write" /\ pc = "done" =>
           /\ ret.type = Expected(<<"-", "-", "t", "y", "p", "e">>, <<"b", "l", "o", "g">>)
           /\ includes(ret.output,
                       Metadata(ret.type, Expected(<<"-", "-", "t", "o", "n", "e">>, <<"p", "r",
                           "o", "f", "e", "s", "s", "i", "o", "n", "a", "l">>)))
           /\ includes(fs[CONTENT].text,
                       <<"#", "#", "#", " ">> \o arg.topic \o <<"\n", "\n">>
                           \o Metadata(ret.type, Expected(<<"-", "-", "t", "o", "n", "e">>, <<"p",
                               "r", "o", "f", "e", "s", "s", "i", "o", "n", "a", "l">>)))

\* C15, reached: a draft saved with type blog after a --type flag without a value.
C15_Witness ==
    /\ arg.agent = "write" /\ pc = "done"
    /\ arg.argv = <<<<"w", "r", "i", "t", "e">>, <<"a", "i">>, <<"-", "-", "t", "y", "p", "e">>>>
    /\ includes(fs[CONTENT].text, Metadata(<<"b", "l", "o", "g">>, <<"p", "r", "o", "f", "e", "s",
        "s", "i", "o", "n", "a", "l">>))

-----------------------------------------------------------------------------
(* route(): one call, on trackers in any state *)

\* What a tracker may hold: nothing, the two sections routes are made to, or neither.
TrackerFiles == {NoFile, File(<<"#", "#", " ", "I", "d", "e", "a", "s", "\n", "#", "#", " ", "T",
    "o", " ", "R", "e", "s", "e", "a", "r", "c", "h", "\n">>), File(<<"#", " ", "T", "\n", "#",
    "#", " ", "N", "o", "t", "e", "s">>)}

InitRoute ==
    /\ io = NoCalls
    /\ fs \in {files \in [FileNames -> TrackerFiles] : ~files[WEEKLY].exists}
    /\ fs0 = fs
    /\ arg \in [item : {[line |-> 0, text |-> <<"a">>, raw |-> <<"-", " ", "[", " ", "]", " ",
        "a">>]},
                category : validCategories]
    /\ pc = "start"
    /\ run = <<>>
    /\ ret = <<>>
    /\ res = <<>>
    /\ calls = <<>>
    /\ items = <<>>
    /\ results = <<>>
    /\ own = <<>>

\* route(item, category), lines 140-190: the item is kept where it is, or addToFile calls
\* readFile (line 197)
Route ==
    /\ pc = "start"
    /\ LET call == route(arg.item, arg.category)
       IN  IF call = NoOp
           THEN pc' = "done" /\ UNCHANGED io
           ELSE /\ io' = [io EXCEPT ![1] = begun(call, fs[call.file])]
                /\ pc' = "route"
    /\ UNCHANGED <<fs, fs0, arg, run, ret, res, calls, items, results, own>>

\* route(): addToFile has written the destination (line 214), and route returns
RouteReturn ==
    /\ pc = "route"
    /\ io[1].at = "done"
    /\ pc' = "done"
    /\ io' = [io EXCEPT ![1] = Idle]
    /\ UNCHANGED <<fs, fs0, arg, run, ret, res, calls, items, results, own>>

NextRoute == Route \/ RouteReturn \/ Reading(1) \/ Writing(1)

SpecRoute == InitRoute /\ [][NextRoute]_vars

\* The file each category other than task is routed to.
DestinationOf(category) ==
    CASE category = <<"p", "r", "o", "j", "e", "c", "t">> -> PROJECTS
      [] category = <<"r", "e", "s", "e", "a", "r", "c", "h">> -> RESEARCH
      [] category = <<"c", "o", "n", "t", "e", "n", "t">> -> CONTENT
      [] category = <<"c", "l", "i", "e", "n", "t">> -> CLIENTS
      [] category = <<"r", "e", "f", "e", "r", "e", "n", "c", "e">> -> CAPTURE
      [] category = <<"i", "d", "e", "a">> -> CAPTURE

\* C17: route writes no file for a task, and for any other category changes the
\* category's destination file and no other file.
C17_RouteFrame ==
    pc = "done" =>
        IF arg.category = <<"t", "a", "s", "k">> THEN fs = fs0
        ELSE /\ fs[DestinationOf(arg.category)] # fs0[DestinationOf(arg.category)]
             /\ fs[DestinationOf(arg.category)].exists
             /\ \A f \in FileNames \ {DestinationOf(arg.category)} : fs[f] = fs0[f]

\* C17, reached: a client note routed into a missing CLIENTS.md while other trackers
\* hold text.
C17_Witness ==
    /\ pc = "done"
    /\ arg.category = <<"c", "l", "i", "e", "n", "t">>
    /\ ~fs0[CLIENTS].exists /\ fs[CLIENTS].exists
    /\ fs0[CAPTURE].exists /\ fs0[PROJECTS].exists

-----------------------------------------------------------------------------
(* generateSearchQueries(): one call, for any topic, count and reply *)

\* Most queries asked for.
MaxCount == 5

\* Topics as a caller may pass them: plain, and with a blank in front.
QueryTopics == {<<"a", "i">>, <<" ", "a", "i">>}

\* Replies with the topic padded, and with blank lines only.
PaddedReplies == QueryReplies \cup {<<" ", "a", "i", " ", "\n", " ", "q", "1">>, <<"\n", " ",
    "\n">>}

InitQueries ==
    /\ io = NoCalls
    /\ arg \in [topic : QueryTopics, count : 1..MaxCount, response : PaddedReplies]
    /\ pc = "start"
    /\ res = <<>>
    /\ fs = NoFiles
    /\ fs0 = fs
    /\ run = <<>>
    /\ ret = <<>>
    /\ calls = <<>>
    /\ items = <<>>
    /\ results = <<>>
    /\ own = <<>>

\* generateSearchQueries(topic, count, context), lines 109-120
Queries ==
    /\ pc = "start"
    /\ res' = generateSearchQueries(arg.topic, Number(arg.count), arg.response)
    /\ pc' = "done"
    /\ UNCHANGED <<arg, fs, fs0, run, ret, calls, items, results, own, io>>

NextQueries == Queries

SpecQueries == InitQueries /\ [][NextQueries]_vars

\* A non-empty line without blanks at either end.
TrimmedLine(q) == q # <<>> /\ trim(q) = q /\ ~includes(q, NL)

\* q is what a line of the reply trims to.
LineOfReply(q) ==
    \E k \in DOMAIN split(arg.response) : trim(split(arg.response)[k]) = q

\* C18 as claimed: at most count queries, every one of them a non-empty trimmed line,
\* the topic among them.
C18_QueriesClaimed ==
    pc = "done" =>
        /\ Len(res) <= arg.count
        /\ \A i \in DOMAIN res : TrimmedLine(res[i])
        /\ \E i \in DOMAIN res : res[i] = arg.topic
        /\ arg.count = 1 => res = <<arg.topic>>

\* C18: at most count queries, every one of them the topic as it was passed or a
\* non-empty trimmed line of the reply, the topic always among them, so that for count 1
\* the result is the topic alone.
C18_Queries ==
    pc = "done" =>
        /\ Len(res) <= arg.count
        /\ \A i \in DOMAIN res :
               res[i] = arg.topic \/ (TrimmedLine(res[i]) /\ LineOfReply(res[i]))
        /\ \E i \in DOMAIN res : res[i] = arg.topic
        /\ arg.count = 1 => res = <<arg.topic>>

\* C18, reached: a reply of more lines than asked for that lacks the topic, cut to the
\* topic and the first lines.
C18_Witness ==
    /\ pc = "done"
    /\ arg.count = 3
    /\ arg.response = <<"q", "1", "\n", " ", "q", "2", " ", "\n", "\n", "q", "3", "\n", "q", "4",
        "\n", "q", "5", "\n", "q", "6", "\n", "q", "7">>
    /\ res = <<arg.topic, <<"q", "1">>, <<"q", "2">>>>

-----------------------------------------------------------------------------
(* research(): the searches, with the HTTP exchange of each *)

\* What a call can come to: the results found, or a raised error.
Found(found) == [raised |-> FALSE, results |-> found]
SearchRaise == [raised |-> TRUE, results |-> <<>>]

\* A result as the provider's body holds it.
asProvided(r) == [title |-> r.title, url |-> r.url, description |-> r.snippet]

\* The body of the provider's response: not JSON, the JSON value null, or a JSON object
\* with or without web.results.
NoBody == [json |-> "invalid", web |-> FALSE, results |-> <<>>]
NullBody == [json |-> "null", web |-> FALSE, results |-> <<>>]
ErrorBody == [json |-> "object", web |-> FALSE, results |-> <<>>]
ResultsBody(found) ==
    [json |-> "object", web |-> TRUE, results |-> [i \in DOMAIN found |-> asProvided(found[i])]]

\* No request made.
NoExchange == [connected |-> FALSE, status |-> 0, body |-> NoBody]

\* What the request for the k-th query can come to: no connection, or a response of
\* any status with any body.
SearchExchanges(k) ==
    {NoExchange}
        \cup [connected : {TRUE}, status : {200, 429, 500},
              body : {NoBody, NullBody, ErrorBody, ResultsBody(distinctResults(k)),
                      ResultsBody(sharedResults(k))}]

\* braveSearch(query): the placeholder without a key; otherwise fetch raises without a
\* connection, response.json() raises on a body that is not JSON, data.web raises on
\* null, and (data.web?.results || []) is mapped to title, url, snippet
braveSearch(query, apiKey, exchange) ==
    IF ~apiKey THEN Found(mockResults(query))
    ELSE IF ~exchange.connected THEN SearchRaise
    ELSE IF exchange.body.json # "object" THEN SearchRaise
    ELSE IF ~exchange.body.web THEN Found(<<>>)
    ELSE Found([i \in DOMAIN exchange.body.results |->
                   [title |-> exchange.body.results[i].title,
                    url |-> exchange.body.results[i].url,
                    snippet |-> exchange.body.results[i].description]])

\* webSearch(query): the results of braveSearch, or none when it raises
webSearch(query, apiKey, exchange) ==
    IF braveSearch(query, apiKey, exchange).raised THEN <<>>
    ELSE braveSearch(query, apiKey, exchange).results

InitSearch ==
    /\ io = NoCalls
    /\ arg \in [topic : Topics, depth : {"quick", "standard"}, apiKey : BOOLEAN, save : {TRUE}]
    /\ fs = NoFiles
    /\ fs0 = fs
    /\ run = [response |-> <<>>, queries |-> <<>>, searchResults |-> <<>>, sources |-> <<>>,
              synthesis |-> <<>>]
    /\ pc = "start"
    /\ ret = <<>>
    /\ items = <<>>
    /\ results = <<>>
    /\ own = <<>>
    /\ calls = <<>>
    /\ res = <<>>

\* research(), lines 60-68: webSearch for the next query
SearchQuery ==
    /\ pc = "search"
    /\ LET k == Len(run.searchResults) + 1
           query == run.queries[k]
       IN  \E exchange \in (IF arg.apiKey THEN SearchExchanges(k) ELSE {NoExchange}) :
               /\ run' = [run EXCEPT !.searchResults =
                             Append(@, [query |-> query,
                                        results |-> webSearch(query, arg.apiKey, exchange)])]
               /\ calls' = Append(calls, [query |-> query, exchange |-> exchange])
    /\ pc' = IF Len(run'.searchResults) = Len(run.queries) THEN "fetch" ELSE "search"
    /\ UNCHANGED <<fs, fs0, ret, items, results, own, arg, res, io>>

NextSearch ==
    \/ ResearchQueries
    \/ ResearchQueriesLLMFails
    \/ SearchQuery
    \/ ResearchFetch
    \/ ResearchFinish
    \/ ResearchSynthesisLLMFails
    \/ ResearchReturn
    \/ Writing(1)

SpecSearch == InitSearch /\ [][NextSearch]_vars

\* The provider failed on the k-th search: no connection, a status outside 200..299,
\* or a body that is not a JSON object.
ProviderFailed(k) ==
    /\ arg.apiKey
    /\ \/ ~calls[k].exchange.connected
       \/ calls[k].exchange.status \notin 200..299
       \/ calls[k].exchange.body.json # "object"

\* The response to the k-th search carries web.results.
CarriesResults(k) ==
    /\ calls[k].exchange.connected
    /\ calls[k].exchange.body.json = "object"
    /\ calls[k].exchange.body.web

\* The searches other than the failed ones, in order.
RECURSIVE answered(_, _)
answered(failed, k) ==
    IF k = 0 THEN <<>>
    ELSE IF k \in failed THEN answered(failed, k - 1)
         ELSE Append(answered(failed, k - 1), run.searchResults[k])

\* Every query is searched in turn; each of the failed searches yields no result and
\* no source, and the sources are what the other searches alone give; without
\* credentials every search yields the one placeholder result and synthesis receives
\* at least one source.
isolated(failed) ==
    /\ Len(calls) = Len(run.searchResults)
    /\ \A k \in DOMAIN calls :
           /\ run.searchResults[k].query = run.queries[k]
           /\ k \in failed => run.searchResults[k].results = <<>>
           /\ ~arg.apiKey => run.searchResults[k].results = mockResults(run.queries[k])
    /\ pc \in {"fetch", "synth", "save", "done"} => Len(run.searchResults) = Len(run.queries)
    /\ pc \in {"synth", "save", "done"} =>
           /\ run.sources = fetchSources(answered(failed, Len(calls)), arg.depth)
           /\ \A i \in DOMAIN run.sources :
                  \A k \in failed : run.sources[i].query # calls[k].query
           /\ ~arg.apiKey => Len(run.sources) >= 1

\* C19: a search on which the provider fails yields no result and no source, every
\* query is still searched in turn, and the sources are what the other searches alone
\* give; without credentials every search yields the one placeholder result and
\* synthesis receives at least one source.
C19_SearchFailureIsolated ==
    isolated({k \in DOMAIN calls : ProviderFailed(k)})

\* The same, for the failures whose response carries no web.results.
C19_FailureWithoutResultsIsolated ==
    isolated({k \in DOMAIN calls : ProviderFailed(k) /\ ~CarriesResults(k)})

\* The provider failed on the second of three searches, the third was still made, and
\* the sources come from the first and the third.
C19_FailureReached ==
    /\ pc = "done"
    /\ Len(calls) = 3
    /\ ~ProviderFailed(1) /\ ProviderFailed(2) /\ ~CarriesResults(2) /\ ~ProviderFailed(3)
    /\ \E i \in DOMAIN ret.sources : ret.sources[i].query = calls[3].query
    /\ \E i \in DOMAIN ret.sources : ret.sources[i].query = calls[1].query

\* Without credentials: three searches, one placeholder source.
C19_PlaceholderReached ==
    /\ pc = "done"
    /\ ~arg.apiKey
    /\ Len(calls) = 3
    /\ Len(ret.sources) = 1

-----------------------------------------------------------------------------
(* The research file under successive saveToResearch calls *)

\* The research file as it may be found: missing, with the header's divider and a
\* section below it, and without any divider.
NotesFiles == {NoFile, File(<<"#", " ", "R", "\n", "\n", "-", "-", "-", "\n", "\n", "#", "#", " ",
    "T", "o", " ", "R", "e", "s", "e", "a", "r", "c", "h", "\n">>), File(<<"#", " ", "R", "\n">>)}

\* The reports that may be saved: what formatReport renders for a topic and a synthesis,
\* one synthesis with a horizontal rule of its own.
Reports ==
    {formatReport(topic, synthesis, mockResults(topic)) :
        topic \in {<<"a", "i">>, <<"m", "l">>}, synthesis \in {<<"F", "i", "n", "d", "i", "n",
            "g", "s", " ", "[", "1", "]">>, <<"a", "\n", "\n", "-", "-", "-", "\n", "\n", "b">>}}

InitNotes ==
    /\ io = NoCalls
    /\ \E c \in NotesFiles : fs = [NoFiles EXCEPT ![RESEARCH] = c]
    /\ fs0 = fs
    /\ calls = <<>>
    /\ pc = "start"
    /\ run = [p \in Invocations |-> 0]
    /\ ret = <<>>
    /\ items = <<>>
    /\ results = <<>>
    /\ own = <<>>
    /\ arg = <<>>
    /\ res = <<>>

\* saveToResearch(topic, report): readFile called (line 237)
NotesSave(p) ==
    \E report \in Reports : called(p, saveToResearchCall(report), MaxSaves)

\* saveToResearch: writeFile has resolved (line 250), and the call returns
NotesSaved(p) ==
    /\ io[p].at = "done"
    /\ calls' = Append(calls, [report |-> io[p].op.content, found |-> io[p].read,
                               seen |-> run[p]])
    /\ io' = [io EXCEPT ![p] = Idle]
    /\ UNCHANGED <<fs, fs0, pc, run, ret, items, results, own, arg, res>>

NextNotes ==
    \E p \in Invocations : NotesSave(p) \/ Reading(p) \/ Writing(p) \/ NotesSaved(p)

SpecNotes == InitNotes /\ [][NextNotes]_vars

\* How many of the calls saved this report.
timesSaved(report) == Cardinality({k \in DOMAIN calls : calls[k].report = report})

\* Every saved report is in the file, whole, as often as it was saved.
ReportsKept ==
    \A k \in DOMAIN calls :
        occurrences(fs[RESEARCH].text, calls[k].report) >= timesSaved(calls[k].report)

\* The latest report stands on the line after the first divider of the file it was
\* saved to, or at the end of the file when that file had no divider.
LatestPlaced ==
    LET latest == calls[Len(calls)]
        content == IF latest.found.exists THEN latest.found.text ELSE researchHeader
        headerEnd == indexOf(content, Divider, 0)
        text == fs[RESEARCH].text
    IN  IF headerEnd # -1
        THEN startsWith(text, NL \o latest.report, Min({headerEnd + 4, Len(content)}))
        ELSE sliceFrom(text, Len(text) - Len(latest.report)) = latest.report

\* C20: after n saveToResearch calls, with the same or different topics, on any research
\* file, each of the n reports is in the file as one verbatim block; the latest stands
\* right after the divider when the file had one, and at the end when it had none.
C20_ReportsKept ==
    (calls # <<>> /\ InTurn) => fs[RESEARCH].exists /\ ReportsKept /\ LatestPlaced

\* The same, for reports without a divider above their last line or a research file
\* that was missing or had a divider to begin with.
C20_ReportsKeptBelowDivider ==
    /\ calls # <<>>
    /\ InTurn
    /\ \/ ~fs0[RESEARCH].exists \/ includes(fs0[RESEARCH].text, Divider)
       \/ \A k \in DOMAIN calls :
              indexOf(calls[k].report, Divider, 0) = Len(calls[k].report) - 4
    => fs[RESEARCH].exists /\ ReportsKept /\ LatestPlaced

-----------------------------------------------------------------------------
(* generate(): trackers with many entries *)

\* Most entries of one kind in a tracker.
MaxItems == 6

\* n lines or headings, numbered from 1: prefix1, prefix2, ...
numbered(prefix, n) == [i \in 1..n |-> prefix \o toString(i)]

InitDigest ==
    /\ io = NoCalls
    /\ arg \in [tasks : 0..MaxItems, research : 0..MaxItems, content : 0..MaxItems]
    /\ fs = [NoFiles EXCEPT
                ![CAPTURE] = File(join(numbered(<<"-", " ", "[", "x", "]", " ", "t">>, arg.tasks))),
                ![RESEARCH] = File(join(numbered(<<"#", "#", " ", "r">>, arg.research))),
                ![CONTENT] = File(join(numbered(<<"#", "#", "#", " ", "c">>, arg.content)))]
    /\ fs0 = fs
    /\ run = generateLocals
    /\ pc = "start"
    /\ ret = <<>>
    /\ items = <<>>
    /\ results = <<>>
    /\ own = <<>>
    /\ calls = <<>>
    /\ res = <<>>

SpecDigest == InitDigest /\ [][NextReview]_vars

\* The text of the review between a heading line and what follows the section.
sectionBody(review, heading, following) ==
    LET from == indexOf(review, heading, 0) + Len(heading)
    IN  slice(review, from, indexOf(review, following, from))

\* What a section lists for n entries named prefix1, prefix2, ...: the first five.
firstFive(prefix, n, none) ==
    IF n = 0 THEN none ELSE join(numbered(<<"-", " ">> \o prefix, Min({n, 5})))

\* C21: the rendered review lists at most five entries under Completed Tasks, Research
\* Done and Content Created, the first ones of each list in file order.
C21_FiveItems ==
    pc = "done" =>
        /\ sectionBody(ret.review, <<"#", "#", " ", "{2705}", " ", "C", "o", "m", "p", "l", "e",
            "t", "e", "d", " ", "T", "a", "s", "k", "s", "\n">>, <<"\n", "\n", "#", "#", " ",
            "{D83D}", "{DD2C}", " ", "R", "e", "s", "e", "a", "r", "c", "h", " ", "D", "o", "n",
            "e">>)
               = firstFive(<<"t">>, arg.tasks, <<"-", " ", "(", "n", "o", "n", "e", " ", "r", "e",
                   "c", "o", "r", "d", "e", "d", ")">>)
        /\ sectionBody(ret.review, <<"#", "#", " ", "{D83D}", "{DD2C}", " ", "R", "e", "s", "e",
            "a", "r", "c", "h", " ", "D", "o", "n", "e", "\n">>, <<"\n", "\n", "#", "#", " ",
            "{D83D}", "{DCDD}", " ", "C", "o", "n", "t", "e", "n", "t", " ", "C", "r", "e", "a",
            "t", "e", "d">>)
               = firstFive(<<"r">>, arg.research, <<"-", " ", "(", "n", "o", "n", "e", " ", "t",
                   "h", "i", "s", " ", "w", "e", "e", "k", ")">>)
        /\ sectionBody(ret.review, <<"#", "#", " ", "{D83D}", "{DCDD}", " ", "C", "o", "n", "t",
            "e", "n", "t", " ", "C", "r", "e", "a", "t", "e", "d", "\n">>, <<"\n", "\n", "-", "-",
            "-", "\n", "\n", "*", "G", "e", "n", "e", "r", "a", "t", "e", "d">>)
               = firstFive(<<"c">>, arg.content, <<"-", " ", "(", "n", "o", "n", "e", " ", "t",
                   "h", "i", "s", " ", "w", "e", "e", "k", ")">>)

\* The same, for a capture file with at most five completed tasks.
C21_FiveItemsFewTasks == arg.tasks <= 5 => C21_FiveItems

-----------------------------------------------------------------------------
(* getWeekStart(): the Monday of the current week *)

\* Calendar years the current date is drawn from, counted from 2024.
MaxYears == 2

isLeap(y) == (y % 4 = 0 /\ y % 100 # 0) \/ y % 400 = 0

daysInMonth(y, mo) ==
    IF mo = 2 THEN (IF isLeap(y) THEN 29 ELSE 28)
    ELSE IF mo \in {4, 6, 9, 11} THEN 30 ELSE 31

daysInYear(y) == IF isLeap(y) THEN 366 ELSE 365

RECURSIVE daysBeforeYear(_)
\* Days from 1 January 2023 to 1 January of year y.
daysBeforeYear(y) == IF y <= 2023 THEN 0 ELSE daysBeforeYear(y - 1) + daysInYear(y - 1)

RECURSIVE daysBeforeMonth(_, _)
daysBeforeMonth(y, mo) == IF mo <= 1 THEN 0 ELSE daysBeforeMonth(y, mo - 1) + daysInMonth(y, mo - 1)

\* Day count since 1 January 2023 of a calendar date; a day of the month below 1 or
\* beyond the month's end lands in a neighbouring month, as Date does.
dayNumber(y, mo, d) == daysBeforeYear(y) + daysBeforeMonth(y, mo) + d - 1

RECURSIVE monthOf(_, _, _)
monthOf(n, y, mo) ==
    IF n < daysInMonth(y, mo) THEN [year |-> y, month |-> mo, date |-> n + 1]
    ELSE monthOf(n - daysInMonth(y, mo), y, mo + 1)

RECURSIVE yearOf(_, _)
yearOf(n, y) == IF n < daysInYear(y) THEN monthOf(n, y, 1) ELSE yearOf(n - daysInYear(y), y + 1)

\* A Date is its local time in minutes since 1 January 2023 00:00, a Sunday.
MinutesPerDay == 24 * 60
fields(t) == yearOf(t \div MinutesPerDay, 2023)
getDate(t) == fields(t).date
getDay(t) == (t \div MinutesPerDay) % 7
setDate(t, d) == dayNumber(fields(t).year, fields(t).month, d) * MinutesPerDay + (t % MinutesPerDay)
setHoursZero(t) == (t \div MinutesPerDay) * MinutesPerDay

getWeekStartSundayAsOtherDays(now) ==
    LET day == getDay(now)
        diff == getDate(now) - day + 1
    IN  setHoursZero(setDate(now, diff))

getWeekStart(now) ==
    LET day == getDay(now)
        diff == getDate(now) - day + (IF day = 0 THEN -6 ELSE 1)
        monday == setDate(now, diff)
    IN  setHoursZero(monday)

Years == 2024..(2023 + MaxYears)
TimesOfDay == {0, 9 * 60 + 30, MinutesPerDay - 1}
Nows ==
    {dayNumber(dt[1], dt[2], dt[3]) * MinutesPerDay + dt[4] :
        dt \in {dd \in Years \X (1..12) \X (1..31) \X TimesOfDay :
                    dd[3] <= daysInMonth(dd[1], dd[2])}}

InitWeek ==
    /\ io = NoCalls
    /\ arg \in [now : Nows]
    /\ pc = "start"
    /\ res = <<>>
    /\ fs = NoFiles
    /\ fs0 = NoFiles
    /\ items = <<>>
    /\ results = <<>>
    /\ ret = <<>>
    /\ own = <<>>
    /\ calls = <<>>
    /\ run = <<>>

WeekStart ==
    /\ pc = "start"
    /\ res' = [weekStart |-> getWeekStart(arg.now)]
    /\ pc' = "done"
    /\ UNCHANGED <<fs, items, results, ret, fs0, own, calls, run, arg, io>>

NextWeek == WeekStart

SpecWeek == InitWeek /\ [][NextWeek]_vars

\* C22: whatever the current date, getWeekStart() returns a Monday at 00:00 local time
\* that is not after the current time and less than seven days before it.
C22_WeekStart ==
    pc = "done" =>
        /\ getDay(res.weekStart) = 1
        /\ res.weekStart % MinutesPerDay = 0
        /\ res.weekStart <= arg.now
        /\ arg.now - res.weekStart < 7 * MinutesPerDay

\* A Sunday in the first days of a month: the week began in the month before.
C22_Witness ==
    /\ pc = "done"
    /\ getDay(arg.now) = 0
    /\ getDate(arg.now) < 6
    /\ fields(res.weekStart).month # fields(arg.now).month
    /\ getDate(res.weekStart) = daysInMonth(fields(res.weekStart).year, fields(res.weekStart).month) + getDate(arg.now) - 6

-----------------------------------------------------------------------------
(* getRelevantResearch(): the research notes a draft may draw on *)

\* s.split(sep) with a non-empty string separator
RECURSIVE splitOn(_, _)
splitOn(s, sep) ==
    LET i == indexOf(s, sep, 0)
    IN  IF i = -1 THEN <<s>>
        ELSE <<slice(s, 0, i)>> \o splitOn(sliceFrom(s, i + Len(sep)), sep)

\* getRelevantResearch(topic), reading the research file
getRelevantResearch(file, topic) ==
    IF ~file.exists THEN <<>>
    ELSE LET sections == Tail(splitOn(file.text, <<"#", "#", " ">>))
             keywords == SelectSeq(splitOn(toLowerCase(topic), <<" ">>), LAMBDA w : Len(w) > 3)
             relevant == SelectSeq(sections,
                             LAMBDA section :
                                 \E k \in DOMAIN keywords :
                                     includes(toLowerCase(section), keywords[k]))
         IN  IF Len(relevant) > 0
             THEN join([i \in DOMAIN first(relevant, 2) |-> <<"#", "#", " ">> \o relevant[i]])
             ELSE <<>>

\* Most sections of a research file.
MaxSections == 3

\* Sections research notes are made of; the last has a sub-heading, as reports have.
NoteSections ==
    {<<"#", "#", " ", "S", "o", "l", "a", "r", " ", "p", "o", "w", "e", "r", "\n", "P", "a", "n",
        "e", "l", "s", ".", "\n">>, <<"#", "#", " ", "W", "i", "n", "d", "\n", "B", "e", "a", "t",
        "s", " ", "s", "o", "l", "a", "r", " ", "c", "e", "l", "l", "s", ".", "\n">>, <<"#", "#",
        " ", "C", "a", "t", "s", "\n", "T", "h", "e", "y", " ", "p", "u", "r", "r", ".", "\n">>,
     <<"#", "#", " ", "S", "o", "l", "a", "r", " ", "r", "o", "o", "f", "s", "\n", "T", "i", "l",
         "e", "s", ".", "\n", "\n", "#", "#", "#", " ", "S", "o", "u", "r", "c", "e", "s", "\n",
         "1", ".", " ", "[", "S", "o", "l", "a", "r", " ", "t", "i", "l", "e", "s", "]", "(", "u",
         ")", "\n">>}

RECURSIVE concat(_)
concat(ss) == IF Len(ss) = 0 THEN <<>> ELSE Head(ss) \o concat(Tail(ss))

RelevantFiles ==
    {NoFile} \cup
    {File(<<"#", " ", "R", "e", "s", "e", "a", "r", "c", "h", " ", "N", "o", "t", "e", "s", "\n",
        "\n">> \o concat(ss)) :
        ss \in UNION {[1..n -> NoteSections] : n \in 0..MaxSections}}

RelevantTopics == {<<"S", "o", "l", "a", "r">>, <<"t", "h", "e", " ", "s", "u", "n">>, <<"c", "a",
    "t", "s", " ", " ", "a", "n", "d", " ", "W", "I", "N", "D">>, <<"p", "u", "r", "r", "i", "n",
    "g">>}

InitRelevant ==
    /\ io = NoCalls
    /\ \E c \in RelevantFiles : fs = [NoFiles EXCEPT ![RESEARCH] = c]
    /\ arg \in [topic : RelevantTopics]
    /\ fs0 = fs
    /\ pc = "start"
    /\ res = <<>>
    /\ items = <<>>
    /\ results = <<>>
    /\ ret = <<>>
    /\ own = <<>>
    /\ calls = <<>>
    /\ run = <<>>

\* getRelevantResearch(topic): readFile called (line 102)
Relevant ==
    /\ pc = "start"
    /\ io' = [io EXCEPT ![1] = begun(readFile(RESEARCH), fs[RESEARCH])]
    /\ pc' = "relevant"
    /\ UNCHANGED <<fs, items, results, ret, fs0, own, calls, run, arg, res>>

\* getRelevantResearch(topic), lines 102-121: readFile has settled, and the sections are
\* chosen; the empty string when it raised
RelevantReturn ==
    /\ pc = "relevant"
    /\ io[1].at \in {"done", "raised"}
    /\ res' = [context |-> getRelevantResearch(io[1].read, arg.topic)]
    /\ pc' = "done"
    /\ io' = [io EXCEPT ![1] = Idle]
    /\ UNCHANGED <<fs, items, results, ret, fs0, own, calls, run, arg>>

NextRelevant == Relevant \/ RelevantReturn \/ Reading(1)

SpecRelevant == InitRelevant /\ [][NextRelevant]_vars

\* The sections of a text: each runs from a line starting with "## " to the next such line.
RECURSIVE sectionsFrom(_, _)
sectionsFrom(text, i) ==
    LET starts == {k \in i..(Len(text) - 3) :
                      startsWith(text, <<"#", "#", " ">>, k) /\ (k = 0 \/ text[k] = "\n")}
        s == Min(starts)
        nexts == {k \in starts : k > s}
        e == IF nexts = {} THEN Len(text) ELSE Min(nexts)
    IN  IF starts = {} THEN <<>> ELSE <<slice(text, s, e)>> \o sectionsFrom(text, e)

\* The topic's words longer than three characters, lower-cased.
topicWords(topic) == LET words == splitOn(toLowerCase(topic), <<" ">>)
    IN  {words[i] : i \in {k \in DOMAIN words : Len(words[k]) > 3}}

\* What the research file offers for a topic: its first two sections, in file order, that
\* hold a word of the topic.
firstTwoRelevant(file, topic) ==
    IF ~file.exists THEN <<>>
    ELSE join(first(SelectSeq(sectionsFrom(file.text, 0),
                       LAMBDA section : \E w \in topicWords(topic) :
                                           includes(toLowerCase(section), w)), 2))

\* C23: getRelevantResearch(topic) returns the first two sections of the research file, in
\* file order, that hold a topic word longer than three characters, and the empty string
\* when there is none, no such word, or no readable file.
C23_RelevantSections ==
    pc = "done" => res.context = firstTwoRelevant(fs[RESEARCH], arg.topic)

\* The same, for research notes whose sections have no sub-headings.
C23_RelevantSectionsFlat ==
    (pc = "done" /\ ~includes(fs[RESEARCH].text, <<"#", "#", "#", " ">>)) =>
        res.context = firstTwoRelevant(fs[RESEARCH], arg.topic)

-----------------------------------------------------------------------------
(* process() while another invocation captures *)

\* Most capture() calls of other invocations during one process().
MaxCaptures == 1

InboxLines == {Inbox, <<"-", " ", "[", " ", "]", " ", "a">>, <<"-", " ", "[", " ", "]", " ",
    "b">>, <<>>}

InboxFiles ==
    {NoFile} \cup {File(join(ls)) : ls \in UNION {[1..n -> InboxLines] : n \in 1..MaxLines}}

CapturedTexts == {<<"n">>}

\* The capture file process() starts on while another invocation captures.
InterleaveFiles ==
    {NoFile} \cup
    {File(join(ls)) :
        ls \in UNION {[1..n -> {Inbox, <<"-", " ", "[", " ", "]", " ",
            "a">>, <<>>}] : n \in 1..MaxLines}}

InitInterleave ==
    /\ io = NoCalls
    /\ fs \in {[NoFiles EXCEPT ![CAPTURE] = c] : c \in InterleaveFiles}
    /\ fs0 = fs
    /\ pc = "start"
    /\ items = <<>>
    /\ results = <<>>
    /\ own = <<>>
    /\ ret = [processed |-> -1, items |-> <<>>]
    /\ calls = <<>>
    /\ run = <<>>
    /\ arg = <<>>
    /\ res = <<>>

\* capture(text) of another invocation, called after the scan: readFile called (line 262)
InterleavedCapture ==
    /\ pc \in {"loop", "route", "mark", "marking"}
    /\ Len(calls) < MaxCaptures
    /\ io[2].at = "idle"
    /\ \E text \in CapturedTexts :
         io' = [io EXCEPT ![2] = begun(captureCall(text), fs[CAPTURE])]
    /\ UNCHANGED <<fs, fs0, pc, items, results, own, ret, run, arg, calls, res>>

\* capture(text) of the other invocation: writeFile has resolved (line 282), and the
\* call returns
InterleavedCaptureReturn ==
    /\ io[2].at = "done"
    /\ calls' = Append(calls, [site |-> "capture", text |-> io[2].op.content,
                               read |-> io[2].read, during |-> pc])
    /\ io' = [io EXCEPT ![2] = Idle]
    /\ UNCHANGED <<fs, fs0, pc, items, results, own, ret, run, arg, res>>

NextInterleave ==
    \/ NextProcess
    \/ InterleavedCapture
    \/ Reading(2)
    \/ Writing(2)
    \/ InterleavedCaptureReturn

SpecInterleave == InitInterleave /\ [][NextInterleave]_vars

\* The lines of the capture file that read "- [x] <text>".
checkedLines(file, text) == countLines(file, Checked \o <<" ">> \o text)

\* The items of this run with the given text that were categorized as non-task and routed.
routedAs(text) == {i \in DOMAIN results : Routed(i) /\ items[i].text = text}

\* C24: process() flips to "- [x]" only lines of items this run categorized and routed:
\* every checked line of the capture file was checked before the run or holds the text of
\* an item the run routed, one line per such item; an item captured by another invocation
\* between the scan and the mark is not marked processed.
C24_OnlyRoutedFlipped ==
    (pc = "done" /\ io[2].at = "idle") =>
        \A k \in DOMAIN linesOf(fs[CAPTURE]) :
            LET line == linesOf(fs[CAPTURE])[k]
                text == sliceFrom(line, 6)
            IN  startsWith(line, Checked \o <<" ">>, 0) =>
                    checkedLines(fs[CAPTURE], text)
                        <= checkedLines(fs0[CAPTURE], text) + Cardinality(routedAs(text))

\* The same, when no other invocation captured during the run.
C24_OnlyRoutedFlippedAlone == calls = <<>> => C24_OnlyRoutedFlipped

-----------------------------------------------------------------------------
(* process() run twice *)

\* process() is started again once the first run has returned, no other edit between.
ProcessAgain ==
    /\ pc = "done"
    /\ calls = <<>>
    /\ calls' = <<[site |-> "process", items |-> items, results |-> results, files |-> fs]>>
    /\ pc' = "start"
    /\ items' = <<>>
    /\ results' = <<>>
    /\ own' = <<>>
    /\ ret' = [processed |-> -1, items |-> <<>>]
    /\ UNCHANGED <<fs, fs0, run, arg, res, io>>

NextTwice ==
    \/ NextProcess
    \/ ProcessAgain

\* Most lines of the capture file process() is run twice on.
MaxTwiceLines == 2

TwiceLines == {<<"#", "#", " ", "I", "d", "e", "a", "s">>, <<"-", " ", "[", " ", "]", " ",
    "a">>, <<"-", " ", "[", " ", "]", " ", "b">>}

TwiceFiles ==
    {NoFile} \cup {File(join(ls)) : ls \in UNION {[1..n -> TwiceLines] : n \in 1..MaxTwiceLines}}

InitTwice ==
    /\ io = NoCalls
    /\ fs \in {[NoFiles EXCEPT ![CAPTURE] = c] : c \in TwiceFiles}
    /\ fs0 = fs
    /\ pc = "start"
    /\ items = <<>>
    /\ results = <<>>
    /\ own = <<>>
    /\ ret = [processed |-> -1, items |-> <<>>]
    /\ calls = <<>>
    /\ run = <<>>
    /\ arg = <<>>
    /\ res = <<>>

SpecTwice == InitTwice /\ [][NextTwice]_vars

\* The texts of the items of the first run that it did not route: tasks and failures.
leftPending(before) ==
    LET left == SelectSeq(before.results,
                    LAMBDA r : ~(r.error = "" /\ r.category # <<"t", "a", "s", "k">>))
    IN  [i \in DOMAIN left |-> left[i].item.text]

\* C25: a second process() with no edit in between examines only the items the first run
\* categorized as task or failed on, so that no item the first run routed is routed again.
C25_SecondRunSkipsRouted ==
    (Len(calls) = 1 /\ pc \notin {"start", "scan"}) =>
        [i \in DOMAIN items |-> items[i].text] = leftPending(calls[1])

\* The first run's routing inserted a line into the capture file above a pending item.
ShiftedInFirstRun(before) ==
    \E k \in DOMAIN before.items :
        /\ k + 1 \in DOMAIN linesOf(before.files[CAPTURE])
        /\ before.items[k].line + 1 \in DOMAIN linesOf(before.files[CAPTURE])
        /\ linesOf(before.files[CAPTURE])[before.items[k].line + 1] \notin
               {Unchecked \o <<" ">> \o before.items[k].text,
                Checked \o <<" ">> \o before.items[k].text}

\* The same, when the first run left every item on the line it was found on.
C25_SecondRunSkipsRoutedUnshifted ==
    (Len(calls) = 1 /\ pc \notin {"start", "scan"} /\ ~ShiftedInFirstRun(calls[1])) =>
        [i \in DOMAIN items |-> items[i].text] = leftPending(calls[1])

-----------------------------------------------------------------------------
(* capture(): one more pending item *)

\* The texts a call may capture.
NewTexts == {<<"n">>, <<"c", "a", "l", "l", " ", "B", "o">>}

InitCapture ==
    /\ io = NoCalls
    /\ fs \in {[NoFiles EXCEPT ![CAPTURE] = c] : c \in InboxFiles}
    /\ arg = <<>>
    /\ fs0 = fs
    /\ pc = "start"
    /\ items = <<>>
    /\ results = <<>>
    /\ own = <<>>
    /\ ret = <<>>
    /\ calls = <<>>
    /\ run = [p \in Invocations |-> 0]
    /\ res = <<>>

\* capture(text): readFile called (line 262)
Capture(p) ==
    \E text \in NewTexts : called(p, captureCall(text), MaxCalls)

\* capture(text): writeFile has resolved (line 282), and the call returns
CaptureReturn(p) ==
    /\ io[p].at = "done"
    /\ calls' = Append(calls, [text |-> io[p].op.content, seen |-> run[p]])
    /\ io' = [io EXCEPT ![p] = Idle]
    /\ UNCHANGED <<fs, fs0, pc, run, ret, items, results, own, arg, res>>

NextCapture ==
    \E p \in Invocations : Capture(p) \/ Reading(p) \/ Writing(p) \/ CaptureReturn(p)

SpecCapture == InitCapture /\ [][NextCapture]_vars

\* How many pending items of the capture file have the given text.
pendingWith(file, text) ==
    Cardinality({i \in DOMAIN getPendingItems(file) : getPendingItems(file)[i].text = text})

pendingTexts(file) == {getPendingItems(file)[i].text : i \in DOMAIN getPendingItems(file)}

\* C26: capture(text) adds one pending item with that text and keeps every pending item
\* the file had, with its text: the pending items afterwards are the previous ones and
\* the new one (for a call no other call runs beside).
C26_CaptureAddsOne ==
    Alone =>
        \A text \in pendingTexts(fs0[CAPTURE]) \cup pendingTexts(fs[CAPTURE]) \cup {calls[1].text} :
            pendingWith(fs[CAPTURE], text)
                = pendingWith(fs0[CAPTURE], text) + (IF text = calls[1].text THEN 1 ELSE 0)

\* The capture file has no "## Inbox", or a blank line or the end of the file right after it.
InboxThenBlank(file) ==
    LET content == captureRead(file)
        inboxIndex == indexOf(content, Inbox, 0)
        nextLineIndex == indexOf(content, NL, inboxIndex) + 1
    IN  \/ inboxIndex = -1
        \/ /\ nextLineIndex > 0
           /\ nextLineIndex = Len(content) \/ content[nextLineIndex + 1] = "\n"

\* The same, for a capture file whose "## Inbox" line is followed by a blank line.
C26_CaptureAddsOneAfterBlank ==
    (Alone /\ InboxThenBlank(fs0[CAPTURE])) =>
        \A text \in pendingTexts(fs0[CAPTURE]) \cup pendingTexts(fs[CAPTURE]) \cup {calls[1].text} :
            pendingWith(fs[CAPTURE], text)
                = pendingWith(fs0[CAPTURE], text) + (IF text = calls[1].text THEN 1 ELSE 0)

-----------------------------------------------------------------------------
(* research(), write() and generate() when the model call raises *)

\* What the file an agent saves to holds beforehand.
AbortFiles == {NoFile, File(<<"#", " ", "N", "o", "t", "e", "s", "\n", "\n", "-", "-", "-", "\n",
    "\n", "#", "#", " ", "o", "l", "d", "\n", "k", "e", "p", "t", "\n">>)}

InitAbort ==
    /\ io = NoCalls
    /\ arg \in [agent : {"research", "write", "generate"}, provider : Providers,
                topic : Topics, depth : {"quick"}, apiKey : {FALSE}, save : {TRUE}]
    /\ \E c \in AbortFiles :
         fs = [NoFiles EXCEPT ![RESEARCH] = c, ![CONTENT] = c, ![WEEKLY] = c]
    /\ fs0 = fs
    /\ run = CASE arg.agent = "research" ->
                      [response |-> <<>>, queries |-> <<>>, searchResults |-> <<>>,
                       sources |-> <<>>, synthesis |-> <<>>]
               [] arg.agent = "generate" -> generateLocals
               [] OTHER -> <<>>
    /\ pc = "start"
    /\ ret = <<>>
    /\ items = <<>>
    /\ results = <<>>
    /\ own = <<>>
    /\ calls = <<>>
    /\ res = <<>>

NextAbort ==
    \/ LLMResearchQueries
    \/ arg.agent = "research" /\ ResearchSearch
    \/ arg.agent = "research" /\ ResearchFetch
    \/ LLMResearchFinish
    \/ arg.agent = "research" /\ ResearchReturn
    \/ arg.agent = "write" /\ WriteStart
    \/ LLMWrite
    \/ arg.agent = "write" /\ WriteReturn
    \/ arg.agent = "generate" /\ ReviewGather
    \/ arg.agent = "generate" /\ ReviewGatherNext
    \/ LLMReviewFinish
    \/ arg.agent = "generate" /\ ReviewReturn
    \/ Reading(1)
    \/ Writing(1)

SpecAbort == InitAbort /\ [][NextAbort]_vars

\* The file the agent saves its result to.
target(agent) ==
    CASE agent = "research" -> RESEARCH
      [] agent = "write" -> CONTENT
      [] agent = "generate" -> WEEKLY

\* C27: when a model call of research(), write() or generate() raises (as it does on a
\* network error), the invocation ends there and the file it saves to, like every other
\* file, is what it was before the invocation.
C27_RaiseWritesNothing ==
    \A k \in DOMAIN calls :
        (calls[k].outcome.raised \/ NetworkError(calls[k].exchange)) =>
            /\ pc = "raised"
            /\ k = Len(calls)
            /\ fs[target(arg.agent)] = fs0[target(arg.agent)]
            /\ fs = fs0

\* research() on existing notes: the query call answered, the synthesis call raised.
C27_Witness ==
    /\ arg.agent = "research"
    /\ fs0[RESEARCH].exists
    /\ Len(calls) = 2
    /\ ~calls[1].outcome.raised
    /\ calls[2].outcome.raised
    /\ pc = "raised"
    /\ fs[RESEARCH] = fs0[RESEARCH]

-----------------------------------------------------------------------------
(* The research topics gatherData() counts after saveToResearch() *)

\* data.research.topics of gatherData() on the given files
topicsCounted(files) == gatherData(files).research.topics

\* Most reports saved before the trackers are read.
MaxReports == 2

\* Reports as formatReport renders them, the synthesis without headings.
PlainReports ==
    {formatReport(topic, synthesis, sources) :
        topic \in {<<"a", "i">>, <<"m", "l">>}, synthesis \in {<<"x">>, <<"-", " ", "y", "\n",
            "-", " ", "z">>},
        sources \in {<<>>, <<[title |-> <<"t">>, url |-> <<"u">>, snippet |-> <<>>]>>}}

InitTopics ==
    /\ io = NoCalls
    /\ \E c \in NotesFiles : fs = [NoFiles EXCEPT ![RESEARCH] = c]
    /\ fs0 = fs
    /\ calls = <<>>
    /\ pc = "start"
    /\ run = generateLocals
    /\ ret = <<>>
    /\ items = <<>>
    /\ results = <<>>
    /\ own = <<>>
    /\ arg = <<>>
    /\ res = [p \in Invocations |-> 0]

\* saveToResearch(topic, report): readFile called (line 237)
TopicsSave(p) ==
    /\ pc = "start"
    /\ io[p].at = "idle"
    /\ made < MaxReports
    /\ \E report \in PlainReports :
         io' = [io EXCEPT ![p] = begun(saveToResearchCall(report), fs[RESEARCH])]
    /\ res' = [res EXCEPT ![p] = Len(calls)]
    /\ UNCHANGED <<fs, fs0, pc, run, ret, items, results, own, arg, calls>>

\* saveToResearch: writeFile has resolved (line 250), and the call returns
TopicsSaved(p) ==
    /\ io[p].at = "done"
    /\ io[p].op.op = "saveToResearch"
    /\ calls' = Append(calls, [report |-> io[p].op.content, seen |-> res[p]])
    /\ io' = [io EXCEPT ![p] = Idle]
    /\ UNCHANGED <<fs, fs0, pc, run, ret, items, results, own, arg, res>>

\* gatherData() of a later generate(), once the reports are saved
TopicsGather ==
    /\ made = Len(calls)
    /\ ReviewGather

NextTopics ==
    \/ \E p \in Invocations : TopicsSave(p) \/ Reading(p) \/ Writing(p) \/ TopicsSaved(p)
    \/ TopicsGather
    \/ ReviewGatherNext

SpecTopics == InitTopics /\ [][NextTopics]_vars

\* The count before any report was saved.
topicsBefore == topicsCounted(fs0)

\* C28: every report saved by saveToResearch raises the research topic count of a later
\* gatherData() by exactly one.
C28_TopicPerReport ==
    (pc = "summary" /\ InTurn) => run.data.research.topics = topicsBefore + Len(calls)

\* Every report saved raises the count by two: its topic heading and "## Sources",
\* found inside "### Sources".
C28_TwoTopicsPerReport ==
    (pc = "summary" /\ InTurn) => run.data.research.topics = topicsBefore + 2 * Len(calls)
====
